---------------------------- MODULE Spec2Model ----------------------------
(***************************************************************************)
(* A model of the PerftMaster chess engine: the bitboard position with     *)
(* make/unmake and incremental Zobrist hashing (board.rs, move.rs), the    *)
(* legal move generator (move_generator.rs), the Score algebra and the     *)
(* iterative-deepening negamax search (search.rs) and the UCI loop with    *)
(* its worker threads and stop flag (uci.rs).                              *)
(*                                                                         *)
(* A Bitboard (u64) is modelled as the set of its set bits, a subset of    *)
(* 0..63; the Zobrist hash as the set of indices of zobrist_values whose   *)
(* XOR it is (the 781 random constants are taken to be independent).       *)
(***************************************************************************)
EXTENDS Integers, Sequences, FiniteSets, TLC

(***************************************************************************)
(* Integer helpers with Rust's semantics.                                  *)
(***************************************************************************)
Abs(x) == IF x < 0 THEN -x ELSE x

Max(a, b) == IF a > b THEN a ELSE b

\* Rust's / on integers truncates toward zero.
TruncDiv(a, b) == IF a >= 0 THEN a \div b ELSE -((-a) \div b)

\* Rust's % takes the sign of the dividend.
RustRem(a, b) == a - b * TruncDiv(a, b)

MinOf(S) == CHOOSE x \in S : \A y \in S : x <= y

MaxOf(S) == CHOOSE x \in S : \A y \in S : x >= y

RECURSIVE SeqAsc(_)
\* The order in which repeated pop_lsb calls empty a bitboard.
SeqAsc(S) == IF S = {} THEN <<>>
             ELSE LET m == MinOf(S) IN <<m>> \o SeqAsc(S \ {m})

RECURSIVE Flatten(_)
Flatten(ss) == IF ss = <<>> THEN <<>> ELSE Head(ss) \o Flatten(Tail(ss))

SeqToSet(s) == {s[i] : i \in 1..Len(s)}

SymDiff(A, B) == (A \ B) \cup (B \ A)

\* `let v = ...;` followed by the statements F that use v.
Bind(v, F(_)) == F(v)

\* Bit operations on four-bit words (move flags, castling rights).
BitAt(n, i) == (n \div (2 ^ i)) % 2

BitOr(a, b) ==
    LET bit(i) == IF BitAt(a, i) = 1 \/ BitAt(b, i) = 1 THEN 2 ^ i ELSE 0
    IN bit(0) + bit(1) + bit(2) + bit(3)

BitAnd(a, b) ==
    LET bit(i) == IF BitAt(a, i) = 1 /\ BitAt(b, i) = 1 THEN 2 ^ i ELSE 0
    IN bit(0) + bit(1) + bit(2) + bit(3)

BitXor(a, b) ==
    LET bit(i) == IF BitAt(a, i) # BitAt(b, i) THEN 2 ^ i ELSE 0
    IN bit(0) + bit(1) + bit(2) + bit(3)

(***************************************************************************)
(* Bitboards.                                                              *)
(***************************************************************************)
Squares == 0..63

\* 1 << n on a u64 with an i16 amount: a release build masks the amount to
\* six bits.
Shl1(n) == {n % 64}

\* Bitboard::checked_shl(1, n as u32).unwrap_or(0)
checked_shl(n) == IF n >= 0 /\ n < 64 THEN {n} ELSE {}

\* bitboard << k and bitboard >> k: bits shifted off the word are lost.
ShiftUp(bb, k) == {s + k : s \in {x \in bb : x + k <= 63}}

ShiftDown(bb, k) == {s - k : s \in {x \in bb : x - k >= 0}}

NOT_A_FILE == {s \in Squares : s % 8 # 0}

NOT_AB_FILE == {s \in Squares : s % 8 > 1}

NOT_GH_FILE == {s \in Squares : s % 8 < 6}

NOT_H_FILE == {s \in Squares : s % 8 # 7}

(***************************************************************************)
(* Directions and the ray tables.                                          *)
(***************************************************************************)
Dirs == {"North", "NorthWest", "NorthEast", "South", "SouthWest", "SouthEast",
         "West", "East"}

DirToSquare(d) ==
    CASE d = "North" -> 8
      [] d = "NorthEast" -> 9
      [] d = "NorthWest" -> 7
      [] d = "East" -> 1
      [] d = "West" -> -1
      [] d = "South" -> -8
      [] d = "SouthWest" -> -9
      [] d = "SouthEast" -> -7

DirRem(d, rhs) == RustRem(DirToSquare(d) + 16, rhs)

\* Dir::from_squares: "None" when the squares are not on a common line.
DirFromSquares(from, to) ==
    Bind((to % 8) - (from % 8), LAMBDA files :
      Bind((to \div 8) - (from \div 8), LAMBDA ranks :
        IF files = 0 \/ ranks = 0 \/ Abs(files) = Abs(ranks)
        THEN Bind(TruncDiv(to - from,
                           IF files = 0 THEN Max(Abs(ranks), 1)
                                        ELSE Max(Abs(files), 1)),
                  LAMBDA square_dir :
               CASE square_dir = 8 -> "North"
                 [] square_dir = 9 -> "NorthEast"
                 [] square_dir = 7 -> "NorthWest"
                 [] square_dir = 1 -> "East"
                 [] square_dir = -1 -> "West"
                 [] square_dir = -8 -> "South"
                 [] square_dir = -9 -> "SouthWest"
                 [] square_dir = -7 -> "SouthEast"
                 [] OTHER -> "None")
        ELSE "None"))

RECURSIVE RayWalk(_, _)
RayWalk(from, dir) ==
    LET on == IF DirRem(dir, 8) = 1
                THEN RustRem(from + 8, 8) > 0 /\ 0 <= from /\ from < 64
              ELSE IF DirRem(dir, 8) = 7
                THEN RustRem(from + 8, 8) < 7 /\ 0 <= from /\ from < 64
              ELSE 0 <= from /\ from < 64
    IN IF on THEN {from} \cup RayWalk(from + DirToSquare(dir), dir) ELSE {}

get_ray(from, dir) == RayWalk(from + DirToSquare(dir), dir)

RECURSIVE BetweenWalk(_, _, _)
BetweenWalk(from, to, dir) ==
    LET on == IF DirRem(dir, 8) = 1
                THEN RustRem(from + 8, 8) > 0 /\ from < to
              ELSE IF DirRem(dir, 8) = 7
                THEN RustRem(from + 8, 8) < 7 /\ from < to
              ELSE 0 <= from /\ from < to
    IN IF on THEN {from} \cup BetweenWalk(from + DirToSquare(dir), to, dir)
       ELSE {}

get_in_between_ray(from0, to0) ==
    Bind(IF from0 > to0 THEN to0 ELSE from0, LAMBDA from :
      Bind(IF from0 > to0 THEN from0 ELSE to0, LAMBDA to :
        Bind(DirFromSquares(from, to), LAMBDA dir :
          IF dir # "None" THEN BetweenWalk(from + DirToSquare(dir), to, dir)
          ELSE {})))

\* RAYS(dir, square)
RAYS(dir, square) == get_ray(square, dir)

\* IN_BETWEEN_RAYS(from, to)
IN_BETWEEN_RAYS(from, to) == get_in_between_ray(from, to)

get_positive_ray_attacks(square, dir, occupied) ==
    Bind(RAYS(dir, square), LAMBDA attacks :
      Bind(attacks \cap occupied, LAMBDA blocker :
        IF blocker # {} THEN SymDiff(attacks, RAYS(dir, MinOf(blocker)))
        ELSE attacks))

get_negative_ray_attacks(square, dir, occupied) ==
    Bind(RAYS(dir, square), LAMBDA attacks :
      Bind(attacks \cap occupied, LAMBDA blocker :
        IF blocker # {} THEN SymDiff(attacks, RAYS(dir, MaxOf(blocker)))
        ELSE attacks))

(***************************************************************************)
(* Moves: a 16-bit word, from | to << 6 | flags << 12.                     *)
(***************************************************************************)
Move(from, to, flags) == from + to * 64 + flags * 4096

NULL == 65535

MoveFrom(m) == m % 64

MoveTo(m) == (m \div 64) % 64

MoveFlags(m) == m \div 4096

is_capture(m) == BitAnd(MoveFlags(m), 4) > 0

is_en_passant(m) == MoveFlags(m) = 5

is_double_push(m) == MoveFlags(m) = 1

is_promotion(m) == BitAnd(MoveFlags(m), 8) > 0

is_quiet(m) == MoveFlags(m) = 0

is_castle(m) == MoveFlags(m) = 2 \/ MoveFlags(m) = 3

\* flags & 0b1011
promotion(m) ==
    LET masked == BitAnd(MoveFlags(m), 11)
    IN CASE masked = 8 -> "Rook"
         [] masked = 9 -> "Knight"
         [] masked = 10 -> "Bishop"
         [] masked = 11 -> "Queen"
         [] OTHER -> "None"

castle(m) == CASE MoveFlags(m) = 2 -> "KingSide"
               [] MoveFlags(m) = 3 -> "QueenSide"
               [] OTHER -> "None"

\* reverse that forgets the flags of the move.
reverse_drops_flags(m) == Move(MoveTo(m), MoveFrom(m), 0)

reverse(m) == Move(MoveTo(m), MoveFrom(m), MoveFlags(m))

bitmap(m) == Shl1(MoveFrom(m)) \cup Shl1(MoveTo(m))

add_promotion_if_possible(from, to, flags) ==
    IF to \div 8 = 0 \/ to \div 8 = 7
    THEN << Move(from, to, BitOr(flags, 8)),
            Move(from, to, BitOr(flags, 9)),
            Move(from, to, BitOr(flags, 10)),
            Move(from, to, BitOr(flags, 11)) >>
    ELSE << Move(from, to, flags) >>

(***************************************************************************)
(* Pieces and the board (board.rs).                                        *)
(***************************************************************************)
PieceKinds == {"Pawn", "Rook", "Knight", "Bishop", "Queen", "King"}

\* `kind as usize` and `color as usize` in the Zobrist index.
KindIndex(k) == CASE k = "Pawn" -> 0
                  [] k = "Rook" -> 1
                  [] k = "Knight" -> 2
                  [] k = "Bishop" -> 3
                  [] k = "Queen" -> 4
                  [] k = "King" -> 5

ColorIndex(c) == CASE c = "White" -> 0
                   [] c = "Black" -> 1

PieceNone == [color |-> "None", kind |-> "None"]

\* Piece::value
value(piece) == CASE piece.kind = "Pawn" -> 100
                  [] piece.kind = "Rook" -> 500
                  [] piece.kind = "Knight" -> 320
                  [] piece.kind = "Bishop" -> 330
                  [] piece.kind = "Queen" -> 900
                  [] piece.kind = "King" -> 100000
                  [] piece.kind = "None" -> 0

\* Piece::score
score(piece) == value(piece) * (CASE piece.color = "White" -> 1
                                  [] piece.color = "Black" -> -1
                                  [] piece.color = "None" -> 0)

\* Square + Color, Square - Color
AddColor(sq, c) == CASE c = "White" -> sq + 8
                     [] c = "Black" -> sq - 8

SubColor(sq, c) == CASE c = "White" -> sq - 8
                     [] c = "Black" -> sq + 8

\* Board::default: every field zero, turn Color::None.
BoardDefault ==
    [white_pieces |-> {}, black_pieces |-> {},
     pawns |-> {}, rooks |-> {}, knights |-> {}, bishops |-> {},
     queens |-> {}, kings |-> {},
     ep |-> 0, half_move_clock |-> 0, full_move_clock |-> 0,
     castling_rights |-> 0, turn |-> "None",
     game_stack |-> <<>>, zobrist_hash |-> {}]

own_pieces(b) == CASE b.turn = "White" -> b.white_pieces
                   [] b.turn = "Black" -> b.black_pieces

opponent_pieces(b) == CASE b.turn = "White" -> b.black_pieces
                        [] b.turn = "Black" -> b.white_pieces

get_piece(b, square) ==
    [color |-> IF square \in b.white_pieces THEN "White"
               ELSE IF square \in b.black_pieces THEN "Black"
               ELSE "None",
     kind |-> IF square \in b.pawns THEN "Pawn"
              ELSE IF square \in b.rooks THEN "Rook"
              ELSE IF square \in b.knights THEN "Knight"
              ELSE IF square \in b.bishops THEN "Bishop"
              ELSE IF square \in b.queens THEN "Queen"
              ELSE IF square \in b.kings THEN "King"
              ELSE "None"]

\* hash ^= zobrist_values[i]
XorHash(h, i) == SymDiff(h, {i})

PieceHashIndex(piece, square) ==
    square + KindIndex(piece.kind) * 128 + ColorIndex(piece.color) * 64

\* The colour and kind bitboards XORed with a mask (move_piece, toggle_piece).
XorBitboards(b, piece, mask) ==
    LET c == CASE piece.color = "White" ->
                    [b EXCEPT !.white_pieces = SymDiff(@, mask)]
               [] piece.color = "Black" ->
                    [b EXCEPT !.black_pieces = SymDiff(@, mask)]
    IN CASE piece.kind = "Pawn" -> [c EXCEPT !.pawns = SymDiff(@, mask)]
         [] piece.kind = "Rook" -> [c EXCEPT !.rooks = SymDiff(@, mask)]
         [] piece.kind = "Knight" -> [c EXCEPT !.knights = SymDiff(@, mask)]
         [] piece.kind = "Bishop" -> [c EXCEPT !.bishops = SymDiff(@, mask)]
         [] piece.kind = "Queen" -> [c EXCEPT !.queens = SymDiff(@, mask)]
         [] piece.kind = "King" -> [c EXCEPT !.kings = SymDiff(@, mask)]

move_piece(b, piece, m) ==
    LET c == XorBitboards(b, piece, bitmap(m))
    IN [c EXCEPT !.zobrist_hash =
            XorHash(XorHash(@, PieceHashIndex(piece, MoveFrom(m))),
                    PieceHashIndex(piece, MoveTo(m)))]

toggle_piece(b, piece, square) ==
    LET c == XorBitboards(b, piece, Shl1(square))
    IN [c EXCEPT !.zobrist_hash = XorHash(@, PieceHashIndex(piece, square))]

toggle_promotion(b, piecekind, square) ==
    toggle_piece(toggle_piece(b, [color |-> b.turn, kind |-> "Pawn"], square),
                 [color |-> b.turn, kind |-> piecekind], square)

toggle_castle(b, m, from) ==
    CASE castle(m) = "KingSide" ->
           move_piece(b, [color |-> b.turn, kind |-> "Rook"],
                      Move(from + 3, from + 1, 0))
      [] castle(m) = "QueenSide" ->
           move_piece(b, [color |-> b.turn, kind |-> "Rook"],
                      Move(from - 4, from - 1, 0))

\* if castling_rights & bit > 0 { castling_rights &= !bit; hash ^= values[i] }
ClearRight(b, bit, i) ==
    IF BitAnd(b.castling_rights, bit) > 0
    THEN [b EXCEPT !.castling_rights = @ - bit,
                   !.zobrist_hash = XorHash(@, i)]
    ELSE b

\* modify_castling_rights_from_rook with the corners of the first rank
\* exchanged.
modify_castling_rights_swapped(b, from) ==
    CASE from = 0 -> ClearRight(b, 8, 769)
      [] from = 7 -> ClearRight(b, 4, 770)
      [] from = 56 -> ClearRight(b, 1, 772)
      [] from = 63 -> ClearRight(b, 2, 771)
      [] OTHER -> b

modify_castling_rights_from_rook(b, from) ==
    CASE from = 0 -> ClearRight(b, 4, 770)
      [] from = 7 -> ClearRight(b, 8, 769)
      [] from = 56 -> ClearRight(b, 1, 772)
      [] from = 63 -> ClearRight(b, 2, 771)
      [] OTHER -> b

\* The block make_move runs for a castle and again for any king move.
clear_castling_rights(b) ==
    CASE b.turn = "White" -> ClearRight(ClearRight(b, 8, 769), 4, 770)
      [] b.turn = "Black" -> ClearRight(ClearRight(b, 2, 771), 1, 772)

\* change_turn that forgets the side-to-move key.
change_turn_no_hash(b) ==
    [b EXCEPT !.turn = IF @ = "White" THEN "Black" ELSE "White"]

change_turn(b) ==
    [b EXCEPT !.turn = IF @ = "White" THEN "Black" ELSE "White",
              !.zobrist_hash = XorHash(@, 768)]

\* u16 arithmetic of the clocks (wrapping, as a release build does).
U16(x) == x % 65536

\* Board::make_move, statement by statement: b1 is the board after the
\* capture block, b2 after the ep reset, b3 after the double push, b4 after
\* the promotion, b5 after the castling block, b6 after the king block, b7
\* after the rook block, b8 after the half-move clock, b9 after move_piece
\* and change_turn.
make_move(b, m) ==
    Bind(get_piece(b, MoveFrom(m)), LAMBDA from_piece :
    Bind(IF is_capture(m) /\ ~is_en_passant(m) THEN get_piece(b, MoveTo(m))
         ELSE IF is_en_passant(m) THEN get_piece(b, SubColor(b.ep, b.turn))
         ELSE PieceNone, LAMBDA capture :
    Bind(IF is_capture(m) /\ ~is_en_passant(m)
         THEN IF capture.kind = "Rook"
              THEN modify_castling_rights_from_rook(
                       toggle_piece(b, capture, MoveTo(m)), MoveTo(m))
              ELSE toggle_piece(b, capture, MoveTo(m))
         ELSE IF is_en_passant(m)
              THEN toggle_piece(b, capture, SubColor(b.ep, b.turn))
         ELSE b, LAMBDA b1 :
    Bind(IF b1.ep # -1
         THEN [b1 EXCEPT !.zobrist_hash = XorHash(@, 773 + (b1.ep % 8)),
                         !.ep = -1]
         ELSE b1, LAMBDA b2 :
    Bind(IF is_double_push(m)
         THEN [b2 EXCEPT
                 !.ep = SubColor(MoveTo(m), b2.turn),
                 !.zobrist_hash =
                     XorHash(@, 773 + (SubColor(MoveTo(m), b2.turn) % 8))]
         ELSE b2, LAMBDA b3 :
    Bind(IF is_promotion(m) THEN toggle_promotion(b3, promotion(m), MoveTo(m))
         ELSE b3, LAMBDA b4 :
    Bind(IF is_castle(m)
         THEN clear_castling_rights(toggle_castle(b4, m, MoveFrom(m)))
         ELSE b4, LAMBDA b5 :
    Bind(IF from_piece.kind = "King" THEN clear_castling_rights(b5)
         ELSE b5, LAMBDA b6 :
    Bind(IF from_piece.kind = "Rook"
         THEN modify_castling_rights_from_rook(b6, MoveFrom(m))
         ELSE b6, LAMBDA b7 :
    Bind([b7 EXCEPT !.half_move_clock = IF is_quiet(m) THEN U16(@ + 1) ELSE 0],
         LAMBDA b8 :
    Bind(change_turn(move_piece(b8, from_piece, m)), LAMBDA b9 :
      [b9 EXCEPT
         !.full_move_clock = IF b9.turn = "White" THEN U16(@ + 1) ELSE @,
         !.game_stack =
             Append(@, [capture |-> capture, ep |-> b.ep,
                        half_move_clock |-> b.half_move_clock,
                        castling_rights |-> b.castling_rights])])))))))))))

\* unmake_move that leaves the castling keys of the hash alone.
UnmakeRightHashSkip(h, modified, bit, i) == h

\* if modified & bit > 0 { hash ^= values[i] }
UnmakeRightHash(h, modified, bit, i) ==
    IF BitAnd(modified, bit) > 0 THEN XorHash(h, i) ELSE h

\* Board::unmake_move, statement by statement: t0 is the board after
\* change_turn, top the popped aspects, m the reversed move, t1 the board
\* after the hash was adjusted for ep and castling rights, t2 after the
\* promotion was undone, t3 after the captured piece was put back, t4 after
\* the castling rook went back.
unmake_move(b, m0) ==
    Bind(change_turn(b), LAMBDA t0 :
    Bind(t0.game_stack[Len(t0.game_stack)], LAMBDA top :
    Bind(reverse(m0), LAMBDA m :
    Bind(BitXor(t0.castling_rights, top.castling_rights), LAMBDA modified :
    Bind([t0 EXCEPT
            !.game_stack = SubSeq(@, 1, Len(@) - 1),
            !.zobrist_hash =
                UnmakeRightHash(
                  UnmakeRightHash(
                    UnmakeRightHash(
                      UnmakeRightHash(
                        SymDiff(SymDiff(@, IF top.ep # -1
                                           THEN {773 + (top.ep % 8)} ELSE {}),
                                IF t0.ep # -1 THEN {773 + (t0.ep % 8)} ELSE {}),
                        modified, 8, 769),
                      modified, 4, 770),
                    modified, 2, 771),
                  modified, 1, 772)], LAMBDA t1 :
    Bind(IF is_promotion(m) THEN toggle_promotion(t1, promotion(m), MoveFrom(m))
         ELSE t1, LAMBDA t2 :
    Bind(get_piece(t2, MoveFrom(m)), LAMBDA from_piece :
    Bind(IF is_capture(m) /\ ~is_en_passant(m)
         THEN toggle_piece(t2, top.capture, MoveFrom(m))
         ELSE IF is_en_passant(m)
              THEN toggle_piece(t2, top.capture, SubColor(top.ep, t2.turn))
         ELSE t2, LAMBDA t3 :
    Bind(IF is_castle(m) THEN toggle_castle(t3, m, MoveTo(m)) ELSE t3,
         LAMBDA t4 :
    Bind(move_piece(t4, from_piece, m), LAMBDA t5 :
      [t5 EXCEPT
         !.ep = top.ep,
         !.half_move_clock = top.half_move_clock,
         !.castling_rights = top.castling_rights,
         !.full_move_clock = IF t5.turn = "Black" THEN U16(@ - 1) ELSE @]
    ))))))))))

(***************************************************************************)
(* The legal move generator (move_generator.rs).                           *)
(***************************************************************************)
white_pawn_attacks(from) ==
    (checked_shl(from + 7) \cap NOT_H_FILE) \cup (checked_shl(from + 9) \cap NOT_A_FILE)

black_pawn_attacks(from) ==
    (checked_shl(from - 7) \cap NOT_A_FILE) \cup (checked_shl(from - 9) \cap NOT_H_FILE)

rook_attacks(from, occupied) ==
    get_positive_ray_attacks(from, "North", occupied)
      \cup get_positive_ray_attacks(from, "East", occupied)
      \cup get_negative_ray_attacks(from, "West", occupied)
      \cup get_negative_ray_attacks(from, "South", occupied)

bishop_attacks(from, occupied) ==
    get_positive_ray_attacks(from, "NorthWest", occupied)
      \cup get_positive_ray_attacks(from, "NorthEast", occupied)
      \cup get_negative_ray_attacks(from, "SouthEast", occupied)
      \cup get_negative_ray_attacks(from, "SouthWest", occupied)

queen_attacks(from, occupied) ==
    get_positive_ray_attacks(from, "NorthWest", occupied)
      \cup get_positive_ray_attacks(from, "North", occupied)
      \cup get_positive_ray_attacks(from, "NorthEast", occupied)
      \cup get_positive_ray_attacks(from, "East", occupied)
      \cup get_negative_ray_attacks(from, "SouthEast", occupied)
      \cup get_negative_ray_attacks(from, "South", occupied)
      \cup get_negative_ray_attacks(from, "SouthWest", occupied)
      \cup get_negative_ray_attacks(from, "West", occupied)

knight_attacks(from) ==
    (checked_shl(from + 15) \cap NOT_H_FILE)
      \cup (checked_shl(from + 17) \cap NOT_A_FILE)
      \cup (checked_shl(from + 6) \cap NOT_GH_FILE)
      \cup (checked_shl(from + 10) \cap NOT_AB_FILE)
      \cup (checked_shl(from - 10) \cap NOT_GH_FILE)
      \cup (checked_shl(from - 6) \cap NOT_AB_FILE)
      \cup (checked_shl(from - 17) \cap NOT_H_FILE)
      \cup (checked_shl(from - 15) \cap NOT_A_FILE)

king_attacks(from) ==
    Bind((checked_shl(from - 1) \cap NOT_H_FILE)
           \cup checked_shl(from)
           \cup (checked_shl(from + 1) \cap NOT_A_FILE), LAMBDA row :
      Bind(row \cup ShiftUp(row, 8), LAMBDA up :
        up \cup ShiftDown(up, 8)))

UnionOver(S, f(_)) == UNION {f(s) : s \in S}

get_attacks(b) ==
    Bind(opponent_pieces(b), LAMBDA opponent :
      Bind(own_pieces(b) \cup opponent, LAMBDA occupied :
        LET pawn(from) == CASE b.turn = "White" -> black_pawn_attacks(from)
                            [] b.turn = "Black" -> white_pawn_attacks(from)
            rook(from) == rook_attacks(from, occupied)
            bishop(from) == bishop_attacks(from, occupied)
            queen(from) == queen_attacks(from, occupied)
        IN UnionOver(b.pawns \cap opponent, pawn)
             \cup UnionOver(b.rooks \cap opponent, rook)
             \cup UnionOver(b.knights \cap opponent, knight_attacks)
             \cup UnionOver(b.bishops \cap opponent, bishop)
             \cup UnionOver(b.queens \cap opponent, queen)
             \cup UnionOver(b.kings \cap opponent, king_attacks)))

\* (kings & own).pop_lsb().expect("No king found")
KingSquare(b, own) == MinOf(b.kings \cap own)

get_checkers(b) ==
    Bind(opponent_pieces(b), LAMBDA opponent :
      Bind(own_pieces(b) \cup opponent, LAMBDA occupied :
        Bind(KingSquare(b, own_pieces(b)), LAMBDA from :
          ((CASE b.turn = "White" -> white_pawn_attacks(from) \cap b.pawns
              [] b.turn = "Black" -> black_pawn_attacks(from) \cap b.pawns)
             \cup (rook_attacks(from, occupied) \cap b.rooks)
             \cup (knight_attacks(from) \cap b.knights)
             \cup (bishop_attacks(from, occupied) \cap b.bishops)
             \cup (queen_attacks(from, occupied) \cap b.queens)
             \cup (king_attacks(from) \cap b.kings))
          \cap opponent)))

get_block_ray(b, checkers) ==
    IF checkers # {}
    THEN IN_BETWEEN_RAYS(MinOf(checkers), KingSquare(b, own_pieces(b)))
           \cup checkers
    ELSE Squares

\* attacks ^ attack_fn(from, occupied ^ (own & attacks))
xray_rook(b, from) ==
    Bind(own_pieces(b) \cup opponent_pieces(b), LAMBDA occupied :
      Bind(rook_attacks(from, occupied), LAMBDA attacks :
        SymDiff(attacks,
                rook_attacks(from,
                    SymDiff(occupied, own_pieces(b) \cap attacks)))))

xray_bishop(b, from) ==
    Bind(own_pieces(b) \cup opponent_pieces(b), LAMBDA occupied :
      Bind(bishop_attacks(from, occupied), LAMBDA attacks :
        SymDiff(attacks,
                bishop_attacks(from,
                    SymDiff(occupied, own_pieces(b) \cap attacks)))))

get_pinned(b) ==
    Bind(own_pieces(b), LAMBDA own :
      Bind(opponent_pieces(b), LAMBDA opponent :
        Bind(KingSquare(b, own), LAMBDA king_square :
          LET between(pinner_square) ==
                  IN_BETWEEN_RAYS(pinner_square, king_square) \cap own
          IN UnionOver((xray_rook(b, king_square)
                          \cap (b.rooks \cup b.queens) \cap opponent)
                         \cup (xray_bishop(b, king_square)
                                 \cap (b.bishops \cup b.queens) \cap opponent),
                       between))))

RayAttacksDir(from, dir, occupied) ==
    IF DirToSquare(dir) > 0 THEN get_positive_ray_attacks(from, dir, occupied)
    ELSE get_negative_ray_attacks(from, dir, occupied)

xray_dir(b, from, to) ==
    Bind(own_pieces(b) \cup opponent_pieces(b), LAMBDA occupied :
      Bind(DirFromSquares(from, to), LAMBDA dir :
        RayAttacksDir(from, dir,
            SymDiff(occupied,
                    own_pieces(b) \cap RayAttacksDir(from, dir, occupied)))))

\* The mask a pinned piece on `from` is held to.
PinMask(b, g, from) ==
    IF from \in g.pinned THEN xray_dir(b, KingSquare(b, own_pieces(b)), from)
    ELSE Squares

\* One capture direction of white_pawn_en_passant / black_pawn_en_passant:
\* `target` is the capture square, `pair` the two pawns leaving the rank,
\* `rank` the rank on which the king can be exposed.
EnPassantTarget(b, g, from, target, shifted, mask, pair, rank, enemy) ==
    Bind(KingSquare(b, own_pieces(b)), LAMBDA king_square :
      IF target \cap (g.block_ray \cup shifted) \cap Shl1(b.ep) \cap mask # {}
      THEN IF king_square \div 8 = rank
           THEN IF RayAttacksDir(king_square,
                                 DirFromSquares(king_square, from),
                                 SymDiff(b.white_pieces \cup b.black_pieces,
                                         pair))
                     \cap enemy \cap (b.rooks \cup b.queens) = {}
                THEN target ELSE {}
           ELSE target
      ELSE {})

\* white_pawn_en_passant without the test of the king's rank.
white_pawn_en_passant_any_rank(b, g, from) ==
    EnPassantTarget(b, g, from, Shl1(from + 7), ShiftUp(g.checkers, 8),
                    NOT_H_FILE, {from - 1, from}, 8, b.black_pieces)
      \cup EnPassantTarget(b, g, from, checked_shl(from + 9),
                           ShiftUp(g.checkers, 8), NOT_A_FILE,
                           {from, from + 1}, 8, b.black_pieces)

white_pawn_en_passant(b, g, from) ==
    EnPassantTarget(b, g, from, Shl1(from + 7), ShiftUp(g.checkers, 8),
                    NOT_H_FILE, {from - 1, from}, 4, b.black_pieces)
      \cup EnPassantTarget(b, g, from, checked_shl(from + 9),
                           ShiftUp(g.checkers, 8), NOT_A_FILE,
                           {from, from + 1}, 4, b.black_pieces)

black_pawn_en_passant(b, g, from) ==
    EnPassantTarget(b, g, from, Shl1(from - 7), ShiftDown(g.checkers, 8),
                    NOT_A_FILE, {from, from + 1}, 3, b.white_pieces)
      \cup EnPassantTarget(b, g, from, checked_shl(from - 9),
                           ShiftDown(g.checkers, 8), NOT_H_FILE,
                           {from - 1, from}, 3, b.white_pieces)

PawnFlags(b, from, to, enemy, push) ==
    BitOr(BitOr(IF to \in enemy THEN 4 ELSE 0,
                IF to - from = push THEN 1 ELSE 0),
          IF to = b.ep THEN 5 ELSE 0)

\* The moves of the pieces on `froms`, piece by piece in pop_lsb order;
\* movesFrom(from) is the body of the loop over the pieces.
MovesOver(froms, movesFrom(_)) ==
    Bind(SeqAsc(froms), LAMBDA fs :
      Flatten([i \in 1..Len(fs) |-> movesFrom(fs[i])]))

generate_white_pawn_moves(b, g) ==
    Bind(b.white_pieces \cup b.black_pieces, LAMBDA blockers :
      LET targets(from) ==
              (Shl1(from + 8) \cap g.block_ray \cap (Squares \ blockers))
                \cup (Shl1(from + 7) \cap g.block_ray \cap b.black_pieces
                        \cap NOT_H_FILE)
                \cup (checked_shl(from + 9) \cap g.block_ray
                        \cap b.black_pieces \cap NOT_A_FILE)
                \cup (IF from \div 8 = 1
                         /\ (Shl1(from + 8) \cup Shl1(from + 16))
                              \cap blockers = {}
                         /\ g.block_ray \cap Shl1(from + 16) # {}
                      THEN Shl1(from + 16) ELSE {})
                \cup (IF b.ep # -1 THEN white_pawn_en_passant(b, g, from)
                      ELSE {})
          promotions(from, to) ==
              add_promotion_if_possible(from, to,
                  PawnFlags(b, from, to, b.black_pieces, 16))
          movesFrom(from) ==
              Bind(SeqAsc(targets(from) \cap PinMask(b, g, from)), LAMBDA tos :
                Flatten([i \in 1..Len(tos) |-> promotions(from, tos[i])]))
      IN MovesOver(b.pawns \cap b.white_pieces, movesFrom))

generate_black_pawn_moves(b, g) ==
    Bind(b.white_pieces \cup b.black_pieces, LAMBDA blockers :
      LET targets(from) ==
              (Shl1(from - 8) \cap g.block_ray \cap (Squares \ blockers))
                \cup (Shl1(from - 7) \cap g.block_ray \cap b.white_pieces
                        \cap NOT_A_FILE)
                \cup (checked_shl(from - 9) \cap g.block_ray
                        \cap b.white_pieces \cap NOT_H_FILE)
                \cup (IF from \div 8 = 6
                         /\ (Shl1(from - 8) \cup Shl1(from - 16))
                              \cap blockers = {}
                         /\ g.block_ray \cap Shl1(from - 16) # {}
                      THEN Shl1(from - 16) ELSE {})
                \cup (IF b.ep # -1 THEN black_pawn_en_passant(b, g, from)
                      ELSE {})
          promotions(from, to) ==
              add_promotion_if_possible(from, to,
                  PawnFlags(b, from, to, b.white_pieces, -16))
          movesFrom(from) ==
              Bind(SeqAsc(targets(from) \cap PinMask(b, g, from)), LAMBDA tos :
                Flatten([i \in 1..Len(tos) |-> promotions(from, tos[i])]))
      IN MovesOver(b.pawns \cap b.black_pieces, movesFrom))

generate_pawn_moves(b, g) ==
    CASE b.turn = "White" -> generate_white_pawn_moves(b, g)
      [] b.turn = "Black" -> generate_black_pawn_moves(b, g)

\* Move::new(from, to, flags) for every square of a bitboard, in pop_lsb
\* order, with the capture flag on the squares of the opponent.
MovesTo(from, bitboard, opponent) ==
    Bind(SeqAsc(bitboard), LAMBDA tos :
      [i \in 1..Len(tos) |->
          Move(from, tos[i], IF tos[i] \in opponent THEN 4 ELSE 0)])

\* The loop shared by the rook, bishop and queen generators.
SliderMoves(b, g, pieces, attack(_, _)) ==
    Bind(own_pieces(b), LAMBDA own :
      Bind(opponent_pieces(b), LAMBDA opponent :
        LET movesFrom(from) ==
                MovesTo(from,
                        attack(from, own \cup opponent) \cap g.block_ray
                          \cap (Squares \ own) \cap PinMask(b, g, from),
                        opponent)
        IN MovesOver(pieces \cap own, movesFrom)))

generate_rook_moves(b, g) == SliderMoves(b, g, b.rooks, rook_attacks)

generate_bishop_moves(b, g) == SliderMoves(b, g, b.bishops, bishop_attacks)

generate_queen_moves(b, g) == SliderMoves(b, g, b.queens, queen_attacks)

generate_knight_moves(b, g) ==
    Bind(own_pieces(b), LAMBDA own :
      LET movesFrom(from) ==
              MovesTo(from,
                      knight_attacks(from) \cap g.block_ray
                        \cap (Squares \ own),
                      opponent_pieces(b))
      IN MovesOver((b.knights \cap own) \ g.pinned, movesFrom))

\* The square beyond the king on the line from a checker that is no pawn.
BeyondKing(b, from, checker_square) ==
    Bind(DirFromSquares(checker_square, from), LAMBDA dir :
      IF checker_square \notin b.pawns /\ dir # "None"
      THEN Shl1(from + DirToSquare(dir))
      ELSE {})

generate_king_moves(b, g) ==
    Bind(own_pieces(b), LAMBDA own :
      Bind(KingSquare(b, own), LAMBDA from :
        LET beyond(c) == BeyondKing(b, from, c)
            Castle(bit, empty, safe, to, flags) ==
                IF BitAnd(b.castling_rights, bit) > 0
                   /\ (own \cup opponent_pieces(b)) \cap empty = {}
                   /\ g.attacks \cap safe = {}
                THEN << Move(from, to, flags) >> ELSE <<>>
        IN MovesTo(from,
                   ((king_attacks(from) \cap (Squares \ own)) \ g.attacks)
                     \ UnionOver(g.checkers, beyond),
                   opponent_pieces(b))
             \o (CASE b.turn = "White" ->
                      Castle(8, {5, 6}, {4, 5, 6}, from + 2, 2)
                        \o Castle(4, {1, 2, 3}, {2, 3, 4}, from - 2, 3)
                   [] b.turn = "Black" ->
                      Castle(2, {61, 62}, {60, 61, 62}, from + 2, 2)
                        \o Castle(1, {57, 58, 59}, {58, 59, 60}, from - 2, 3))))

\* The four masks MoveGenerator::generate_moves computes first.
MoveGenerator(b) ==
    Bind(get_checkers(b), LAMBDA checkers :
      [attacks |-> get_attacks(b), checkers |-> checkers,
       block_ray |-> get_block_ray(b, checkers), pinned |-> get_pinned(b)])

\* MoveGenerator::generate_moves; the MoveGeneratorResult is the moves in
\* generation order and the in_check flag.
generate_moves(b) ==
    Bind(MoveGenerator(b), LAMBDA g :
      [moves |-> (IF Cardinality(g.checkers) # 2
                  THEN generate_pawn_moves(b, g)
                         \o generate_rook_moves(b, g)
                         \o generate_knight_moves(b, g)
                         \o generate_bishop_moves(b, g)
                         \o generate_queen_moves(b, g)
                  ELSE <<>>)
                 \o generate_king_moves(b, g),
       in_check |-> g.checkers # {}])

(***************************************************************************)
(* Loading a position (board.rs).  A FEN is given field by field, its      *)
(* piece placement as the sequence of its characters and its en-passant    *)
(* field as the characters of the square ("-" for none).                   *)
(***************************************************************************)
FenDigits == {"1", "2", "3", "4", "5", "6", "7", "8"}

\* piece as Square - '0' as Square
DigitValue(ch) == CASE ch = "1" -> 1 [] ch = "2" -> 2 [] ch = "3" -> 3
                    [] ch = "4" -> 4 [] ch = "5" -> 5 [] ch = "6" -> 6
                    [] ch = "7" -> 7 [] ch = "8" -> 8

\* char as Square - 'a' as Square
FileValue(ch) == CASE ch = "a" -> 0 [] ch = "b" -> 1 [] ch = "c" -> 2
                   [] ch = "d" -> 3 [] ch = "e" -> 4 [] ch = "f" -> 5
                   [] ch = "g" -> 6 [] ch = "h" -> 7

UpperPieces == {"P", "R", "N", "B", "Q", "K"}

\* String::to_square
to_square(str) == FileValue(str[1]) + (DigitValue(str[2]) - 1) * 8

\* One iteration of the loop of load_fen on `pos`: '/' is skipped, a digit
\* advances pos by its value, any other character by one, and a pos that
\* lands on a rank boundary above 8 moves down two ranks.
FenStep(pos, piece) ==
    LET next == IF piece \in FenDigits THEN pos + DigitValue(piece)
                ELSE pos + 1
    IN IF piece = "/" THEN pos
       ELSE IF next > 8 /\ next % 8 = 0 THEN next - 16
       ELSE next

RECURSIVE FenRun(_, _, _, _)
\* The value of `pos` after the loop of load_fen has read characters
\* lo..hi starting from pos (the range is split in halves to keep the
\* evaluation shallow).
FenRun(chars, lo, hi, pos) ==
    IF pos < 0 \/ lo > hi THEN pos
    ELSE IF lo = hi THEN FenStep(pos, chars[lo])
    ELSE LET mid == (lo + hi) \div 2
         IN FenRun(chars, mid + 1, hi, FenRun(chars, lo, mid, pos))

\* The value of `pos` when the loop of load_fen reads character i.
FenPos(chars, i) == FenRun(chars, 1, i - 1, 56)

\* The bits the loop of load_fen sets for the characters in `letters`.
FenBits(chars, letters) ==
    UNION {Shl1(FenPos(chars, i)) : i \in {j \in 1..Len(chars) : chars[j] \in letters}}

\* The loop of load_fen over the characters of the piece placement: a
\* character that is neither '/' nor a digit sets a colour bit (white when
\* upper case) and the kind bit its letter names.
LoadPieces(b, chars) ==
    LET others == {chars[i] : i \in 1..Len(chars)} \ ({"/"} \cup FenDigits)
    IN [b EXCEPT
          !.white_pieces = @ \cup FenBits(chars, others \cap UpperPieces),
          !.black_pieces = @ \cup FenBits(chars, others \ UpperPieces),
          !.pawns = @ \cup FenBits(chars, {"P", "p"}),
          !.rooks = @ \cup FenBits(chars, {"R", "r"}),
          !.knights = @ \cup FenBits(chars, {"N", "n"}),
          !.bishops = @ \cup FenBits(chars, {"B", "b"}),
          !.queens = @ \cup FenBits(chars, {"Q", "q"}),
          !.kings = @ \cup FenBits(chars, {"K", "k"})]

RECURSIVE LoadCastling(_, _)
LoadCastling(rights, chars) ==
    IF chars = <<>> THEN rights
    ELSE LET ch == Head(chars)
             bit == CASE ch = "K" -> 8 [] ch = "Q" -> 4 [] ch = "k" -> 2
                      [] ch = "q" -> 1 [] OTHER -> 0
         IN LoadCastling(BitOr(rights, bit), Tail(chars))

load_fen(b, fen) ==
    LET placed == LoadPieces(b, fen.pieces)
    IN [placed EXCEPT
          !.turn = CASE fen.turn = "w" -> "White" [] fen.turn = "b" -> "Black",
          !.castling_rights = LoadCastling(0, fen.castling),
          !.ep = IF fen.en_passant # <<"-">> THEN to_square(fen.en_passant)
                 ELSE -1,
          !.half_move_clock = fen.halfmove_clock,
          !.full_move_clock = fen.fullmove_clock]

load_startpos(b) ==
    [b EXCEPT !.white_pieces = 0..15,
              !.black_pieces = 48..63,
              !.pawns = (8..15) \cup (48..55),
              !.rooks = {0, 7, 56, 63},
              !.knights = {1, 6, 57, 62},
              !.bishops = {2, 5, 58, 61},
              !.queens = {3, 59},
              !.kings = {4, 60},
              !.turn = "White",
              !.half_move_clock = 0,
              !.full_move_clock = 1]

clean_board(b) ==
    [b EXCEPT !.white_pieces = {}, !.black_pieces = {},
              !.pawns = {}, !.rooks = {}, !.knights = {}, !.bishops = {},
              !.queens = {}, !.kings = {}, !.ep = -1]

calculate_zobrist(b) ==
    LET pieces == {PieceHashIndex(get_piece(b, sq), sq) :
                      sq \in {s \in Squares : get_piece(b, s).kind # "None"}}
        side == IF b.turn = "Black" THEN {768} ELSE {}
        rights == (IF BitAnd(b.castling_rights, 8) > 0 THEN {769} ELSE {})
                    \cup (IF BitAnd(b.castling_rights, 4) > 0 THEN {770} ELSE {})
                    \cup (IF BitAnd(b.castling_rights, 2) > 0 THEN {771} ELSE {})
                    \cup (IF BitAnd(b.castling_rights, 1) > 0 THEN {772} ELSE {})
        epfile == IF b.ep # -1 THEN {773 + (b.ep % 8)} ELSE {}
    IN [b EXCEPT !.zobrist_hash =
            SymDiff(@, pieces \cup side \cup rights \cup epfile)]

\* annotate_move that takes a pawn's diagonal move to an empty square for a
\* quiet move.
annotate_move_no_en_passant(b, m, promo) ==
    LET from == MoveFrom(m)
        to == MoveTo(m)
        from_piece == get_piece(b, from)
        to_piece == get_piece(b, to)
        f0 == CASE from_piece.kind = "Pawn" ->
                     (IF Abs(to - from) = 16 THEN 1 ELSE 0)
                [] from_piece.kind = "King" ->
                     (IF to - from = 2 THEN 2
                      ELSE IF to - from = -2 THEN 3 ELSE 0)
                [] OTHER -> 0
        f1 == IF to_piece.kind # "None" THEN BitOr(f0, 4) ELSE f0
        f2 == CASE promo = "None" -> f1
                [] promo = "Rook" -> BitOr(f1, 8)
                [] promo = "Knight" -> BitOr(f1, 9)
                [] promo = "Bishop" -> BitOr(f1, 10)
                [] promo = "Queen" -> BitOr(f1, 11)
    IN Move(from, to, BitOr(MoveFlags(m), f2))

\* Board::annotate_move
annotate_move(b, m, promo) ==
    LET from == MoveFrom(m)
        to == MoveTo(m)
        from_piece == get_piece(b, from)
        to_piece == get_piece(b, to)
        f0 == CASE from_piece.kind = "Pawn" ->
                     (IF RustRem(Abs(to - from), 2) = 1
                         /\ to_piece.kind = "None" THEN 5
                      ELSE IF Abs(to - from) = 16 THEN 1 ELSE 0)
                [] from_piece.kind = "King" ->
                     (IF to - from = 2 THEN 2
                      ELSE IF to - from = -2 THEN 3 ELSE 0)
                [] OTHER -> 0
        f1 == IF to_piece.kind # "None" THEN BitOr(f0, 4) ELSE f0
        f2 == CASE promo = "None" -> f1
                [] promo = "Rook" -> BitOr(f1, 8)
                [] promo = "Knight" -> BitOr(f1, 9)
                [] promo = "Bishop" -> BitOr(f1, 10)
                [] promo = "Queen" -> BitOr(f1, 11)
    IN Move(from, to, BitOr(MoveFlags(m), f2))

\* Move::from_ucimove: a UCI move is [from, to, promotion].
from_ucimove(b, ucimove) ==
    annotate_move(b, Move(ucimove.from, ucimove.to, 0), ucimove.promotion)

RECURSIVE MakeUciMoves(_, _)
MakeUciMoves(b, moves) ==
    IF moves = <<>> THEN b
    ELSE MakeUciMoves(make_move(b, from_ucimove(b, Head(moves))), Tail(moves))

\* Board::load_position; fen is <<>> for None (`position startpos`) and
\* << f >> for Some(f).
load_position(b, fen, moves) ==
    LET cleaned == clean_board(b)
        loaded == IF fen = <<>> THEN load_startpos(cleaned)
                  ELSE load_fen(cleaned, fen[1])
    IN calculate_zobrist(MakeUciMoves(loaded, moves))

(***************************************************************************)
(* Scores (search.rs).  A Score is [tag, n]: n is the ply of OwnMate,      *)
(* OppMate and Draw, the centipawns of Score, and 0 for Stop.              *)
(***************************************************************************)
OwnMate(ply) == [tag |-> "OwnMate", n |-> ply]

OppMate(ply) == [tag |-> "OppMate", n |-> ply]

Score(cp) == [tag |-> "Score", n |-> cp]

Draw(ply) == [tag |-> "Draw", n |-> ply]

Stop == [tag |-> "Stop", n |-> 0]

\* Ord::cmp on integers
Cmp(a, b) == IF a < b THEN "Less" ELSE IF a = b THEN "Equal" ELSE "Greater"

\* partial_cmp that ranks OwnMate by larger ply first.
partial_cmp_own_mate_swapped(a, b) ==
    CASE a.tag = "Stop" -> "Less"
      [] b.tag = "Stop" -> "Greater"
      [] a.tag = "OwnMate" /\ b.tag = "OwnMate" -> Cmp(a.n, b.n)
      [] a.tag = "OwnMate" -> "Greater"
      [] a.tag = "OppMate" /\ b.tag = "OppMate" -> Cmp(a.n, b.n)
      [] a.tag = "OppMate" -> "Less"
      [] b.tag = "OwnMate" -> "Less"
      [] b.tag = "OppMate" -> "Greater"
      [] a.tag = "Score" /\ b.tag = "Score" -> Cmp(a.n, b.n)
      [] a.tag = "Score" /\ b.tag = "Draw" -> Cmp(a.n, 0)
      [] a.tag = "Draw" /\ b.tag = "Score" -> Cmp(0, b.n)
      [] a.tag = "Draw" /\ b.tag = "Draw" -> "Equal"

\* impl PartialOrd for Score: the arms of the match, first match wins.
\* The result is always Some(ordering).
partial_cmp(a, b) ==
    IF a.tag = "Stop" THEN "Less"
    ELSE IF b.tag = "Stop" THEN "Greater"
    ELSE IF a.tag = "OwnMate" /\ b.tag = "OwnMate" THEN Cmp(b.n, a.n)
    ELSE IF a.tag = "OwnMate" THEN "Greater"
    ELSE IF a.tag = "OppMate" /\ b.tag = "OppMate" THEN Cmp(a.n, b.n)
    ELSE IF a.tag = "OppMate" THEN "Less"
    ELSE IF b.tag = "OwnMate" THEN "Less"
    ELSE IF b.tag = "OppMate" THEN "Greater"
    ELSE IF a.tag = "Score" /\ b.tag = "Score" THEN Cmp(a.n, b.n)
    ELSE IF a.tag = "Score" /\ b.tag = "Draw" THEN Cmp(a.n, 0)
    ELSE IF a.tag = "Draw" /\ b.tag = "Score" THEN Cmp(0, b.n)
    ELSE "Equal"

\* a < b, a > b, a <= b, a >= b as PartialOrd derives them from partial_cmp.
Lt(a, b) == partial_cmp(a, b) = "Less"

Gt(a, b) == partial_cmp(a, b) = "Greater"

Le(a, b) == partial_cmp(a, b) \in {"Less", "Equal"}

Ge(a, b) == partial_cmp(a, b) \in {"Greater", "Equal"}

\* The match shared by impl Add and impl Sub; `both` is what two Score
\* values give.
AddSub(a, b, both) ==
    IF a.tag = "Stop" \/ b.tag = "Stop" THEN Stop
    ELSE IF a.tag = "OwnMate" /\ b.tag = "OwnMate"
         THEN OwnMate(IF a.n < b.n THEN a.n ELSE b.n)
    ELSE IF a.tag = "OwnMate" /\ b.tag = "OppMate"
         THEN (IF a.n < b.n THEN a ELSE b)
    ELSE IF a.tag = "OwnMate" THEN a
    ELSE IF a.tag = "OppMate" /\ b.tag = "OppMate"
         THEN OppMate(IF a.n < b.n THEN a.n ELSE b.n)
    ELSE IF a.tag = "OppMate" /\ b.tag \in {"OwnMate", "Draw"}
         THEN (IF a.n < b.n THEN a ELSE b)
    ELSE IF a.tag = "OppMate" THEN a
    ELSE IF b.tag \in {"OwnMate", "OppMate"} THEN b
    ELSE IF a.tag = "Score" /\ b.tag = "Score" THEN Score(both)
    ELSE IF a.tag = "Score" /\ b.tag = "Draw" THEN b
    ELSE IF a.tag = "Draw" /\ b.tag = "Score" THEN a
    ELSE Draw(IF a.n < b.n THEN a.n ELSE b.n)

\* impl Add for Score
Add(a, b) == AddSub(a, b, a.n + b.n)

\* impl Sub for Score
Sub(a, b) == AddSub(a, b, a.n - b.n)

\* impl Mul<i64> for Score
Mul(a, rhs) ==
    IF a.tag = "Score"
    THEN IF a.n * rhs > 10000 THEN OwnMate(0)
         ELSE IF a.n * rhs < -10000 THEN OppMate(0)
         ELSE Score(a.n * rhs)
    ELSE a

\* Neg that leaves centipawns as they are.
Neg_keeps_centipawns(a) ==
    CASE a.tag = "OwnMate" -> OppMate(a.n)
      [] a.tag = "OppMate" -> OwnMate(a.n)
      [] a.tag = "Score" -> Score(a.n)
      [] a.tag = "Draw" -> Draw(a.n)
      [] a.tag = "Stop" -> Stop

\* Neg that forgets the ply of a draw.
Neg_forgets_draw_ply(a) ==
    CASE a.tag = "OwnMate" -> OppMate(a.n)
      [] a.tag = "OppMate" -> OwnMate(a.n)
      [] a.tag = "Score" -> Score(-a.n)
      [] a.tag = "Draw" -> Draw(0)
      [] a.tag = "Stop" -> Stop

\* impl Neg for Score
Neg(a) ==
    CASE a.tag = "OwnMate" -> OppMate(a.n)
      [] a.tag = "OppMate" -> OwnMate(a.n)
      [] a.tag = "Score" -> Score(-a.n)
      [] a.tag = "Draw" -> Draw(a.n)
      [] a.tag = "Stop" -> Stop

\* Score::flip_score
flip_score(a) == IF a.tag = "Score" THEN Score(-a.n) ELSE a

\* inc that leaves the ply of a mate or a draw as it is.
inc_keeps_ply(a) == a

\* Score::inc
inc(a) == IF a.tag \in {"OwnMate", "OppMate", "Draw"}
          THEN [a EXCEPT !.n = @ + 1] ELSE a

(***************************************************************************)
(* The positions the exploration starts from, as `position fen ...` gives  *)
(* them to load_position.                                                  *)
(***************************************************************************)
(***************************************************************************)
(* Evaluation and move ordering (search.rs).                               *)
(***************************************************************************)
\* The piece-square table that square_table_scores selects for a piece.
SQUARE_TABLE(piece) ==
    CASE piece.color = "White" /\ piece.kind = "Pawn" ->   \* WHITE_PAWN_SQUARE_TABLE
           <<0, 0, 0, 0, 0, 0, 0, 0, 5, 10, 10, -20, -20, 10, 10, 5,
             5, -5, -10, 0, 0, -10, -5, 5, 0, 0, 0, 20, 20, 0, 0, 0,
             5, 5, 10, 25, 25, 10, 5, 5, 10, 10, 20, 30, 30, 20, 10, 10,
             50, 50, 50, 50, 50, 50, 50, 50, 0, 0, 0, 0, 0, 0, 0, 0>>
      [] piece.color = "Black" /\ piece.kind = "Pawn" ->   \* BLACK_PAWN_SQUARE_TABLE
           <<0, 0, 0, 0, 0, 0, 0, 0, 50, 50, 50, 50, 50, 50, 50, 50,
             10, 10, 20, 30, 30, 20, 10, 10, 5, 5, 10, 25, 25, 10, 5, 5,
             0, 0, 0, 20, 20, 0, 0, 0, 5, -5, -10, 0, 0, -10, -5, 5,
             5, 10, 10, -20, -20, 10, 10, 5, 0, 0, 0, 0, 0, 0, 0, 0>>
      [] piece.color \in {"White", "Black"} /\ piece.kind = "Knight" ->   \* KNIGHT_SQUARE_TABLE
           <<-50, -40, -30, -30, -30, -30, -40, -50, -40, -20, 0, 5, 5, 0, -20, -40,
             -30, 5, 10, 15, 15, 10, 5, -30, -30, 0, 15, 20, 20, 15, 0, -30,
             -30, 5, 15, 20, 20, 15, 5, -30, -30, 0, 10, 15, 15, 10, 0, -30,
             -40, -20, 0, 0, 0, 0, -20, -40, -50, -40, -30, -30, -30, -30, -40, -50>>
      [] piece.color = "White" /\ piece.kind = "Bishop" ->   \* WHITE_BISHOP_SQUARE_TABLE
           <<-20, -10, -10, -10, -10, -10, -10, -20, -10, 5, 0, 0, 0, 0, 5, -10,
             -10, 10, 10, 10, 10, 10, 10, -10, -10, 0, 10, 10, 10, 10, 0, -10,
             -10, 5, 5, 10, 10, 5, 5, -10, -10, 0, 5, 10, 10, 5, 0, -10,
             -10, 0, 0, 0, 0, 0, 0, -10, -20, -10, -10, -10, -10, -10, -10, -20>>
      [] piece.color = "Black" /\ piece.kind = "Bishop" ->   \* BLACK_BISHOP_SQUARE_TABLE
           <<-20, -10, -10, -10, -10, -10, -10, -20, -10, 0, 0, 0, 0, 0, 0, -10,
             -10, 0, 5, 10, 10, 5, 0, -10, -10, 5, 5, 10, 10, 5, 5, -10,
             -10, 0, 10, 10, 10, 10, 0, -10, -10, 10, 10, 10, 10, 10, 10, -10,
             -10, 5, 0, 0, 0, 0, 5, -10, -20, -10, -10, -10, -10, -10, -10, -20>>
      [] piece.color = "White" /\ piece.kind = "Rook" ->   \* WHITE_ROOK_SQUARE_TABLE
           <<0, 0, 0, 5, 5, 0, 0, 0, -5, 0, 0, 0, 0, 0, 0, -5,
             -5, 0, 0, 0, 0, 0, 0, -5, -5, 0, 0, 0, 0, 0, 0, -5,
             -5, 0, 0, 0, 0, 0, 0, -5, -5, 0, 0, 0, 0, 0, 0, -5,
             5, 10, 10, 10, 10, 10, 10, 5, 0, 0, 0, 0, 0, 0, 0, 0>>
      [] piece.color = "Black" /\ piece.kind = "Rook" ->   \* BLACK_ROOK_SQUARE_TABLE
           <<0, 0, 0, 0, 0, 0, 0, 0, 5, 10, 10, 10, 10, 10, 10, 5,
             -5, 0, 0, 0, 0, 0, 0, -5, -5, 0, 0, 0, 0, 0, 0, -5,
             -5, 0, 0, 0, 0, 0, 0, -5, -5, 0, 0, 0, 0, 0, 0, -5,
             -5, 0, 0, 0, 0, 0, 0, -5, 0, 0, 0, 5, 5, 0, 0, 0>>
      [] piece.color = "White" /\ piece.kind = "Queen" ->   \* WHITE_QUEEN_SQUARE_TABLE
           <<-20, -10, -10, -5, -5, -10, -10, -20, -10, 0, 5, 0, 0, 0, 0, -10,
             -10, 5, 5, 5, 5, 5, 0, -10, 0, 0, 5, 5, 5, 5, 0, -5,
             -5, 0, 5, 5, 5, 5, 0, -5, -10, 0, 5, 5, 5, 5, 0, -10,
             -10, 0, 0, 0, 0, 0, 0, -10, -20, -10, -10, -5, -5, -10, -10, -20>>
      [] piece.color = "Black" /\ piece.kind = "Queen" ->   \* BLACK_QUEEN_SQUARE_TABLE
           <<-20, -10, -10, -5, -5, -10, -10, -20, -10, 0, 0, 0, 0, 0, 0, -10,
             -10, 0, 5, 5, 5, 5, 0, -10, -5, 0, 5, 5, 5, 5, 0, -5,
             0, 0, 5, 5, 5, 5, 0, -5, -10, 5, 5, 5, 5, 5, 0, -10,
             -10, 0, 5, 0, 0, 0, 0, -10, -20, -10, -10, -5, -5, -10, -10, -20>>
      [] piece.color = "White" /\ piece.kind = "King" ->   \* WHITE_KING_SQUARE_TABLE
           <<20, 30, 10, 0, 0, 10, 30, 20, 20, 20, 0, 0, 0, 0, 20, 20,
             -10, -20, -20, -20, -20, -20, -20, -10, -20, -30, -30, -40, -40, -30, -30, -20,
             -30, -40, -40, -50, -50, -40, -40, -30, -30, -40, -40, -50, -50, -40, -40, -30,
             -30, -40, -40, -50, -50, -40, -40, -30, -30, -40, -40, -50, -50, -40, -40, -30>>
      [] piece.color = "Black" /\ piece.kind = "King" ->   \* BLACK_KING_SQUARE_TABLE
           <<-30, -40, -40, -50, -50, -40, -40, -30, -30, -40, -40, -50, -50, -40, -40, -30,
             -30, -40, -40, -50, -50, -40, -40, -30, -30, -40, -40, -50, -50, -40, -40, -30,
             -20, -30, -30, -40, -40, -30, -30, -20, -10, -20, -20, -20, -20, -20, -20, -10,
             20, 20, 0, 0, 0, 0, 20, 20, 20, 30, 10, 0, 0, 10, 30, 20>>

\* The loops `for square in 0..64` of material_scores and of
\* square_table_scores, over the squares lo..hi.
RECURSIVE material_sum(_, _, _)
material_sum(b, lo, hi) ==
    IF lo = hi THEN score(get_piece(b, lo))
    ELSE material_sum(b, lo, (lo + hi) \div 2)
         + material_sum(b, (lo + hi) \div 2 + 1, hi)

RECURSIVE square_table_sum(_, _, _)
square_table_sum(b, lo, hi) ==
    IF lo = hi
    THEN Bind(get_piece(b, lo), LAMBDA piece :
           IF piece # PieceNone
           THEN SQUARE_TABLE(piece)[lo + 1]
                * (CASE piece.color = "White" -> 1 [] piece.color = "Black" -> -1)
           ELSE 0)
    ELSE square_table_sum(b, lo, (lo + hi) \div 2)
         + square_table_sum(b, (lo + hi) \div 2 + 1, hi)

\* Search::material_scores
material_scores(b) == Score(material_sum(b, 0, 63))

\* Search::square_table_scores
square_table_scores(b) == Score(square_table_sum(b, 0, 63))

\* Search::checkmate_stalemate
checkmate_stalemate(b) ==
    Bind(generate_moves(b), LAMBDA moves :
      Bind(IF moves.moves = <<>>
           THEN (IF moves.in_check THEN OppMate(0) ELSE Draw(0))
           ELSE Score(0), LAMBDA sc :
        CASE b.turn = "White" -> sc
          [] b.turn = "Black" -> flip_score(sc)))

\* Search::eval
eval(b) ==
    Bind(Add(Add(Add(Score(0), material_scores(b)), square_table_scores(b)),
             checkmate_stalemate(b)), LAMBDA sc :
      CASE b.turn = "White" -> sc
        [] b.turn = "Black" -> flip_score(sc))

\* Search::mvv_lva
mvv_lva(b, x, y) ==
    IF is_capture(x) /\ ~is_capture(y) THEN "Less"
    ELSE IF ~is_capture(x) /\ is_capture(y) THEN "Greater"
    ELSE IF is_capture(x) /\ is_capture(y)
    THEN IF value(get_piece(b, MoveTo(x))) > value(get_piece(b, MoveTo(y)))
         THEN "Less"
         ELSE IF value(get_piece(b, MoveTo(x))) < value(get_piece(b, MoveTo(y)))
         THEN "Greater"
         ELSE Cmp(value(get_piece(b, MoveFrom(x))),
                  value(get_piece(b, MoveFrom(y))))
    ELSE "Equal"

\* The closure negamax sorts with: the transposition-table move first, then
\* mvv_lva.  tt_best_move is <<>> for None and << m >> for Some(m);
\* quiescence_search sorts with mvv_lva alone (None).
MoveOrder(b, tt_best_move, x, y) ==
    IF tt_best_move # <<>> /\ x = tt_best_move[1] THEN "Less"
    ELSE IF tt_best_move # <<>> /\ y = tt_best_move[1] THEN "Greater"
    ELSE mvv_lva(b, x, y)

\* MoveGeneratorResult::sort_by: for i, for j > i, exchange moves[i] and
\* moves[j] when the closure says Greater.  SortInner runs j over lo..hi.
RECURSIVE SortInner(_, _, _, _, _, _)
SortInner(b, tt_best_move, moves, i, lo, hi) ==
    IF Len(moves) = 0 \/ lo > hi THEN moves
    ELSE IF lo = hi
    THEN IF MoveOrder(b, tt_best_move, moves[i], moves[lo]) = "Greater"
         THEN [moves EXCEPT ![i] = moves[lo], ![lo] = moves[i]]
         ELSE moves
    ELSE SortInner(b, tt_best_move,
                   SortInner(b, tt_best_move, moves, i, lo, (lo + hi) \div 2),
                   i, (lo + hi) \div 2 + 1, hi)

RECURSIVE SortOuter(_, _, _, _, _)
SortOuter(b, tt_best_move, moves, lo, hi) ==
    IF Len(moves) = 0 \/ lo > hi THEN moves
    ELSE IF lo = hi
    THEN SortInner(b, tt_best_move, moves, lo, lo + 1, Len(moves))
    ELSE SortOuter(b, tt_best_move,
                   SortOuter(b, tt_best_move, moves, lo, (lo + hi) \div 2),
                   (lo + hi) \div 2 + 1, hi)

sort_by(b, tt_best_move, moves) ==
    SortOuter(b, tt_best_move, moves, 1, Len(moves))

(***************************************************************************)
(* The search (search.rs).  Search.board is the variable `board`; the      *)
(* recursion of negamax and quiescence_search is a stack of frames, one    *)
(* per call in progress.  A frame's index counts the moves of its loop     *)
(* that are finished; moves[index + 1] is the move made on the board.      *)
(***************************************************************************)
\* Search::new
NewSearch ==
    [pv |-> NULL, depth |-> 0, tt |-> [h \in {} |-> NULL], tt_hits |-> 0,
     nodes |-> 0, score |-> Score(0)]

TTNode(best_move, depth, sc, kind) ==
    [best_move |-> best_move, depth |-> depth, score |-> sc, kind |-> kind]

\* HashMap::insert
tt_insert(tt, hash, node) ==
    [h \in DOMAIN tt \cup {hash} |-> IF h = hash THEN node ELSE tt[h]]

\* The locals of a call that has just been entered.
NewFrame(fn, depth, alpha, beta) ==
    [fn |-> fn, depth |-> depth, alpha |-> alpha, beta |-> beta,
     moves |-> <<>>, index |-> 0, best_score |-> OppMate(0),
     best_move |-> NULL, in_check |-> FALSE, tt_best_move |-> <<>>,
     pc |-> "loop", ret_score |-> Stop, ret_kind |-> "Stopped"]

\* `return (sc, kind)`
Returned(f, sc, kind) ==
    [f EXCEPT !.pc = "ret", !.ret_score = sc, !.ret_kind = kind]

\* negamax, the transposition-table lookup: `cut` says the stored node is
\* returned, `best` is tt_best_move.
tt_probe(tt, hash, depth, alpha, beta) ==
    IF hash \notin DOMAIN tt
    THEN [cut |-> FALSE, hit |-> FALSE, best |-> <<>>]
    ELSE Bind(tt[hash], LAMBDA n :
           IF n.depth >= depth
           THEN [cut |-> CASE n.kind = "Pv" -> TRUE
                           [] n.kind = "Cut" -> Ge(n.score, beta)
                           [] n.kind = "All" -> Le(n.score, alpha),
                 hit |-> TRUE, best |-> <<>>]
           ELSE [cut |-> FALSE, hit |-> FALSE,
                 best |-> IF n.kind \in {"Pv", "Cut"} THEN <<n.best_move>>
                          ELSE <<>>])

\* negamax after its loop: no move scored means mate or stalemate; the
\* node is stored as All or Pv and returned.
negamax_settle(s, b, f) ==
    IF f.pc # "loop" \/ f.index < Len(f.moves) THEN [search |-> s, frame |-> f]
    ELSE Bind(IF f.best_move = NULL
              THEN (IF f.in_check THEN OppMate(0) ELSE Draw(0))
              ELSE f.best_score, LAMBDA best_score :
           Bind(IF Lt(best_score, f.alpha) THEN "All" ELSE "Pv", LAMBDA kind :
             [search |-> [s EXCEPT !.tt = tt_insert(@, b.zobrist_hash,
                              TTNode(f.best_move, f.depth, best_score, kind))],
              frame |-> Returned(f, best_score, kind)]))

\* negamax from its entry to its loop: count the node, read the stop flag,
\* look the position up, hand depth 0 to quiescence_search (pc "leaf"),
\* generate and sort the moves.
negamax_enter(s, b, st, depth, alpha, beta) ==
    Bind([s EXCEPT !.nodes = @ + 1], LAMBDA s1 :
      Bind(NewFrame("negamax", depth, alpha, beta), LAMBDA f :
        IF st = "Stopping"
        THEN [search |-> s1, frame |-> Returned(f, Stop, "Stopped")]
        ELSE Bind(tt_probe(s1.tt, b.zobrist_hash, depth, alpha, beta),
                  LAMBDA probe :
          Bind(IF probe.hit THEN [s1 EXCEPT !.tt_hits = @ + 1] ELSE s1,
               LAMBDA s2 :
            IF probe.cut
            THEN [search |-> s2,
                  frame |-> Returned(f, s2.tt[b.zobrist_hash].score,
                                     s2.tt[b.zobrist_hash].kind)]
            ELSE IF depth = 0
            THEN [search |-> s2, frame |-> [f EXCEPT !.pc = "leaf"]]
            ELSE Bind(generate_moves(b), LAMBDA g :
                   negamax_settle(s2, b,
                     [f EXCEPT !.moves = sort_by(b, probe.best, g.moves),
                               !.in_check = g.in_check,
                               !.tt_best_move = probe.best]))))))

\* negamax, the body of its loop after the recursive call: b is the board
\* after unmake_move, child the score the call returned.
negamax_resume(s, b, f, child) ==
    Bind(Neg(inc(child)), LAMBDA sc :
      Bind(f.moves[f.index + 1], LAMBDA m :
        IF Ge(sc, f.beta)
        THEN [search |-> [s EXCEPT !.tt = tt_insert(@, b.zobrist_hash,
                              TTNode(f.best_move, f.depth, sc, "Cut"))],
              frame |-> Returned(f, sc, "Cut")]
        ELSE negamax_settle(
               IF Gt(sc, f.best_score) /\ Gt(sc, f.alpha) /\ f.depth = s.depth
               THEN [s EXCEPT !.pv = m] ELSE s,
               b,
               [f EXCEPT !.index = @ + 1,
                         !.best_score = IF Gt(sc, @) THEN sc ELSE @,
                         !.best_move = IF Gt(sc, f.best_score) THEN m ELSE @,
                         !.alpha = IF Gt(sc, f.best_score) /\ Gt(sc, @)
                                   THEN sc ELSE @])))

\* quiescence_search after its loop: `best`.
quiescence_settle(f) ==
    IF f.index < Len(f.moves) THEN f ELSE Returned(f, f.best_score, "Pv")

\* quiescence_search that recurses on every generated move, not on the
\* captures only.
quiescence_enter_every_move(s, b, st, alpha, beta) ==
    Bind(NewFrame("quiescence_search", 0, alpha, beta), LAMBDA f :
      [search |-> [s EXCEPT !.nodes = @ + 1],
       frame |->
         IF st = "Stopping" THEN Returned(f, Stop, "Pv")
         ELSE Bind(eval(b), LAMBDA best :
                IF Ge(best, beta) THEN Returned(f, best, "Pv")
                ELSE quiescence_settle(
                       [f EXCEPT !.best_score = best,
                                 !.alpha = IF Gt(best, alpha) THEN best ELSE alpha,
                                 !.moves = sort_by(b, <<>>,
                                     generate_moves(b).moves)]))])

\* quiescence_search from its entry to its loop: count the node, read the
\* stop flag, stand pat, generate and sort the captures.
quiescence_enter(s, b, st, alpha, beta) ==
    Bind(NewFrame("quiescence_search", 0, alpha, beta), LAMBDA f :
      [search |-> [s EXCEPT !.nodes = @ + 1],
       frame |->
         IF st = "Stopping" THEN Returned(f, Stop, "Pv")
         ELSE Bind(eval(b), LAMBDA best :
                IF Ge(best, beta) THEN Returned(f, best, "Pv")
                ELSE quiescence_settle(
                       [f EXCEPT !.best_score = best,
                                 !.alpha = IF Gt(best, alpha) THEN best ELSE alpha,
                                 !.moves = sort_by(b, <<>>,
                                     SelectSeq(generate_moves(b).moves,
                                               is_capture))]))])

\* quiescence_search, the body of its loop after the recursive call.
quiescence_resume(f, child) ==
    Bind(Neg(inc(child)), LAMBDA sc :
      Bind([f EXCEPT !.index = @ + 1,
                     !.best_score = IF Gt(sc, @) THEN sc ELSE @,
                     !.alpha = IF Gt(sc, f.best_score) /\ Gt(sc, @)
                               THEN sc ELSE @], LAMBDA f1 :
        IF Ge(sc, f.beta) THEN Returned(f1, f1.best_score, "Pv")
        ELSE quiescence_settle(f1)))

\* r3k2r/8/8/8/8/8/8/R3K2R w KQkq - 0 1  (castling on both wings for both colours)
FenCastle ==
    [pieces |-> <<"r", "3", "k", "2", "r", "/", "8", "/", "8", "/", "8", "/", "8", "/", "8", "/", "8", "/", "R", "3", "K", "2", "R">>,
     turn |-> "w", castling |-> <<"K", "Q", "k", "q">>, en_passant |-> <<"-">>,
     halfmove_clock |-> 0, fullmove_clock |-> 1]

\* 8/8/8/K1Pp3r/8/8/8/4k3 w - d6 0 1  (an en-passant capture that would uncover the king on its rank)
FenEpPin ==
    [pieces |-> <<"8", "/", "8", "/", "8", "/", "K", "1", "P", "p", "3", "r", "/", "8", "/", "8", "/", "8", "/", "4", "k", "3">>,
     turn |-> "w", castling |-> <<"-">>, en_passant |-> <<"d", "6">>,
     halfmove_clock |-> 0, fullmove_clock |-> 1]

\* 1n2k3/P7/8/8/8/8/7p/4K1N1 w - - 0 1  (promotions, with and without capture)
FenPromo ==
    [pieces |-> <<"1", "n", "2", "k", "3", "/", "P", "7", "/", "8", "/", "8", "/", "8", "/", "8", "/", "7", "p", "/", "4", "K", "1", "N", "1">>,
     turn |-> "w", castling |-> <<"-">>, en_passant |-> <<"-">>,
     halfmove_clock |-> 0, fullmove_clock |-> 1]

\* 4k3/8/8/8/1p6/8/P7/4K3 w - - 0 1  (a double push that allows an en-passant capture)
FenPush ==
    [pieces |-> <<"4", "k", "3", "/", "8", "/", "8", "/", "8", "/", "1", "p", "6", "/", "8", "/", "P", "7", "/", "4", "K", "3">>,
     turn |-> "w", castling |-> <<"-">>, en_passant |-> <<"-">>,
     halfmove_clock |-> 0, fullmove_clock |-> 1]

\* 4k3/4r3/8/8/1b6/8/3P4/4KB2 w - - 0 1  (a check to answer and a pinned pawn)
FenCheck ==
    [pieces |-> <<"4", "k", "3", "/", "4", "r", "3", "/", "8", "/", "8", "/", "1", "b", "6", "/", "8", "/", "3", "P", "4", "/", "4", "K", "B", "2">>,
     turn |-> "w", castling |-> <<"-">>, en_passant |-> <<"-">>,
     halfmove_clock |-> 0, fullmove_clock |-> 1]

\* 4k3/8/8/8/2pP4/8/8/4K3 b - d3 0 1  (Black to move with an en-passant capture)
FenBlackEp ==
    [pieces |-> <<"4", "k", "3", "/", "8", "/", "8", "/", "8", "/", "2", "p", "P", "4", "/", "8", "/", "8", "/", "4", "K", "3">>,
     turn |-> "b", castling |-> <<"-">>, en_passant |-> <<"d", "3">>,
     halfmove_clock |-> 0, fullmove_clock |-> 1]

\* 8/1b6/8/3pP3/8/8/8/k6K w - d6 0 1  (an en-passant capture that would uncover the king on a diagonal)
FenEpDiagonal ==
    [pieces |-> <<"8", "/", "1", "b", "6", "/", "8", "/", "3", "p", "P", "3", "/", "8", "/", "8", "/", "8", "/", "k", "6", "K">>,
     turn |-> "w", castling |-> <<"-">>, en_passant |-> <<"d", "6">>,
     halfmove_clock |-> 0, fullmove_clock |-> 1]

RootFens == {FenCastle, FenEpPin, FenPromo, FenPush, FenCheck, FenBlackEp,
             FenEpDiagonal}

\* Depth of the make/unmake exploration (the depth argument of perft).
MaxPly == 2

(***************************************************************************)
(* State.  `board` is the Board of the UCI loop; `played` holds the moves  *)
(* made and not yet unmade (the recursion of perft); `saved` holds the     *)
(* Board as it was before each of them, `root` the Board as loaded, and    *)
(* `last` names the operation that produced the state.  `command` is the   *)
(* last position command; `sa`, `sb`, `sc`, `out` are the operands and the *)
(* result of a Score operation.  `search` is the Search of one go          *)
(* (pv, score, tt), `stopper` the shared Status, `stack` the activations   *)
(* of negamax and quiescence_search, `go` the position of Search::go,      *)
(* `info` the info lines printed, `stop_depth` the root depth whose first  *)
(* stopped node was seen, and `workers` the threads spawned by the Go      *)
(* handler, each with its timer thread; `heap` holds the Boards that       *)
(* board.clone() allocated, a worker's `board` being the index of its own. *)
(***************************************************************************)
VARIABLES board, played, saved, root, last, command, sa, sb, sc, out,
          search, stopper, stack, go, info, stop_depth, workers, heap

vars == <<board, played, saved, root, last, command, sa, sb, sc, out,
          search, stopper, stack, go, info, stop_depth, workers, heap>>

boardVars == <<board, played, saved, root, last, command>>

scoreVars == <<sa, sb, sc, out>>

searchVars == <<search, stopper, stack, go, info, stop_depth, workers,
               heap>>

\* No search has been started.
SearchIdle ==
    /\ search = NewSearch
    /\ stopper = "Idle"
    /\ stack = <<>>
    /\ go = [pc |-> "idle"]
    /\ info = <<>>
    /\ stop_depth = 0
    /\ workers = <<>>
    /\ heap = <<>>

\* No Score operation has run.
ScoreIdle == sa = Stop /\ sb = Stop /\ sc = Stop /\ out = [op |-> "none"]

\* No board has been built.
BoardIdle ==
    /\ board = BoardDefault
    /\ played = <<>>
    /\ saved = <<>>
    /\ root = BoardDefault
    /\ last = "new"
    /\ command = [fen |-> <<>>, moves |-> <<>>]

\* Board::new()
Init ==
    /\ board = BoardDefault
    /\ played = <<>>
    /\ saved = <<>>
    /\ root = BoardDefault
    /\ last = "new"
    /\ command = [fen |-> <<>>, moves |-> <<>>]
    /\ ScoreIdle
    /\ SearchIdle

\* `position fen <fen>` on the fresh board: load_position(Some(fen), []).
LoadPosition ==
    /\ last = "new"
    /\ \E fen \in RootFens :
          /\ board' = load_position(board, <<fen>>, <<>>)
          /\ root' = board'
    /\ last' = "load"
    /\ UNCHANGED <<played, saved, command>>
    /\ UNCHANGED <<scoreVars, searchVars>>

\* One iteration of the loop of perft: make_move on a generated move.
\* generate_moves stops the program with "No king found" when the side to
\* move has no king.
MakeMove ==
    /\ last # "new"
    /\ Len(played) < MaxPly
    /\ board.kings \cap own_pieces(board) # {}
    /\ \E m \in SeqToSet(generate_moves(board).moves) :
          /\ board' = make_move(board, m)
          /\ played' = Append(played, m)
    /\ saved' = Append(saved, board)
    /\ last' = "make"
    /\ UNCHANGED <<root, command>>
    /\ UNCHANGED <<scoreVars, searchVars>>

\* The unmake_move that ends the iteration.
UnmakeMove ==
    /\ played # <<>>
    /\ board' = unmake_move(board, played[Len(played)])
    /\ played' = SubSeq(played, 1, Len(played) - 1)
    /\ saved' = SubSeq(saved, 1, Len(saved) - 1)
    /\ last' = "unmake"
    /\ UNCHANGED <<root, command>>
    /\ UNCHANGED <<scoreVars, searchVars>>

Next == LoadPosition \/ MakeMove \/ UnmakeMove

Spec == Init /\ [][Next]_vars

(***************************************************************************)
(* Properties of make_move / unmake_move.                                  *)
(***************************************************************************)
\* C2: every unmake_move gives back the Board as it was before the
\* make_move it undoes, field by field (the two colour bitboards, the six
\* kind bitboards, turn, ep, castling_rights, both clocks, game_stack and
\* zobrist_hash); so unmaking mk..m1 after making m1..mk restores P.
C2_RoundTrip == [][UnmakeMove => board' = saved[Len(saved)]]_vars

\* A sequence of moves was made and unmade again, back to the loaded
\* position.
C2_Witness == last = "unmake" /\ played = <<>> /\ board = root

\* The hash calculate_zobrist gives when it starts from zero.
ScratchHash(b) == calculate_zobrist([b EXCEPT !.zobrist_hash = {}]).zobrist_hash

\* C3: from a root hashed from scratch, after any make_move / unmake_move
\* the incrementally maintained zobrist_hash is the hash computed from
\* scratch from the pieces, the side to move, the castling bits and the ep
\* file.
C3_ZobristConsistent ==
    last \in {"load", "make", "unmake"} => board.zobrist_hash = ScratchHash(board)

\* A move was unmade while another is still made, after castling rights
\* were lost on the way from the loaded position.
C3_Witness ==
    /\ last = "unmake"
    /\ played # <<>>
    /\ board.castling_rights # root.castling_rights
    /\ board.zobrist_hash # {}

\* C16: make_move sets half_move_clock to 0 when the move captures (en
\* passant included) or moves a pawn (single push, double push, promotion),
\* and to the previous value + 1 for every other move, castling included.
C16_HalfMoveClock ==
    [][last' = "make" =>
          board'.half_move_clock =
             IF is_capture(played'[Len(played')])
                  \/ MoveFrom(played'[Len(played')]) \in board.pawns
             THEN 0 ELSE board.half_move_clock + 1]_vars

\* The six bitboards of the kinds.
KindBoards(b) == <<b.pawns, b.rooks, b.knights, b.bishops, b.queens, b.kings>>

\* C18: after every make_move and unmake_move of generated moves from a
\* well-formed root, white_pieces and black_pieces are disjoint, the six
\* kind bitboards are pairwise disjoint, their union is
\* white_pieces | black_pieces, and each colour has exactly one king.
C18_BitboardsConsistent ==
    last \in {"load", "make", "unmake"} =>
        /\ board.white_pieces \cap board.black_pieces = {}
        /\ \A i, j \in 1..6 :
              i # j => KindBoards(board)[i] \cap KindBoards(board)[j] = {}
        /\ UNION {KindBoards(board)[i] : i \in 1..6}
              = board.white_pieces \cup board.black_pieces
        /\ Cardinality(board.kings \cap board.white_pieces) = 1
        /\ Cardinality(board.kings \cap board.black_pieces) = 1

(***************************************************************************)
(* The rules of chess, square by square, to compare generate_moves with.   *)
(***************************************************************************)
RefOn(f, r) == f \in 0..7 /\ r \in 0..7

RefOccupied(b) == b.white_pieces \cup b.black_pieces

RefOf(b, color) == IF color = "White" THEN b.white_pieces ELSE b.black_pieces

RefOther(color) == IF color = "White" THEN "Black" ELSE "White"

RefRookSteps == {<<1, 0>>, <<-1, 0>>, <<0, 1>>, <<0, -1>>}

RefBishopSteps == {<<1, 1>>, <<1, -1>>, <<-1, 1>>, <<-1, -1>>}

RefKnightSteps == {<<1, 2>>, <<2, 1>>, <<2, -1>>, <<1, -2>>,
                   <<-1, -2>>, <<-2, -1>>, <<-2, 1>>, <<-1, 2>>}

\* The squares k steps of d away from `from` for which every square passed
\* on the way is empty.
RefSlide(b, from, d) ==
    {(from + k * (d[1] + 8 * d[2])) : k \in
        {k \in 1..7 :
            /\ RefOn((from % 8) + k * d[1], (from \div 8) + k * d[2])
            /\ \A j \in 1..(k - 1) :
                 (from + j * (d[1] + 8 * d[2])) \notin RefOccupied(b)}}

\* The squares one step of a step in `steps` away from `from`.
RefLeap(from, steps) ==
    {(from + d[1] + 8 * d[2]) : d \in
        {d \in steps : RefOn((from % 8) + d[1], (from \div 8) + d[2])}}

RefForward(color) == IF color = "White" THEN 1 ELSE -1

\* The squares the piece on `from` attacks.
RefAttacksFrom(b, from) ==
    CASE from \in b.pawns ->
           RefLeap(from, {<<1, RefForward(get_piece(b, from).color)>>,
                          <<-1, RefForward(get_piece(b, from).color)>>})
      [] from \in b.knights -> RefLeap(from, RefKnightSteps)
      [] from \in b.kings -> RefLeap(from, RefRookSteps \cup RefBishopSteps)
      [] from \in b.rooks -> UNION {RefSlide(b, from, d) : d \in RefRookSteps}
      [] from \in b.bishops ->
           UNION {RefSlide(b, from, d) : d \in RefBishopSteps}
      [] from \in b.queens ->
           UNION {RefSlide(b, from, d) : d \in RefRookSteps \cup RefBishopSteps}
      [] OTHER -> {}

\* Some piece of `color` attacks sq.
RefAttacked(b, sq, color) ==
    \E from \in RefOf(b, color) : sq \in RefAttacksFrom(b, from)

\* The king of `color` is attacked.
RefInCheck(b, color) ==
    \E k \in b.kings \cap RefOf(b, color) : RefAttacked(b, k, RefOther(color))

\* A pawn move with its promotions.
RefPawnMove(from, to, flags) ==
    IF to \div 8 \in {0, 7}
    THEN {Move(from, to, flags + 8), Move(from, to, flags + 9),
          Move(from, to, flags + 10), Move(from, to, flags + 11)}
    ELSE {Move(from, to, flags)}

\* The moves of the pawn on `from` the rules allow, king safety aside.
RefPawnMoves(b, from, fwd) ==
    (IF (from + 8 * fwd) \notin RefOccupied(b)
     THEN RefPawnMove(from, from + 8 * fwd, 0) ELSE {})
      \cup (IF from \div 8 = (IF fwd = 1 THEN 1 ELSE 6)
               /\ (from + 8 * fwd) \notin RefOccupied(b)
               /\ (from + 16 * fwd) \notin RefOccupied(b)
            THEN {Move(from, from + 16 * fwd, 1)} ELSE {})
      \cup UNION {RefPawnMove(from, to, 4) :
                    to \in RefAttacksFrom(b, from) \cap opponent_pieces(b)}
      \cup {Move(from, to, 5) :
              to \in {t \in RefAttacksFrom(b, from) :
                        /\ t = b.ep
                        /\ t \notin RefOccupied(b)
                        /\ (t - 8 * fwd) \in b.pawns \cap opponent_pieces(b)}}

\* Castling: the right is held, the squares between king and rook are
\* empty, and the king neither stands on, passes nor reaches an attacked
\* square.
RefCastles(b, from) ==
    LET them == RefOther(b.turn)
        Castle(bit, empty, path, to, flags) ==
            IF /\ BitAnd(b.castling_rights, bit) > 0
               /\ empty \cap RefOccupied(b) = {}
               /\ \A s \in path : ~RefAttacked(b, s, them)
            THEN {Move(from, to, flags)} ELSE {}
    IN IF b.turn = "White"
       THEN Castle(8, {5, 6}, {4, 5, 6}, 6, 2)
              \cup Castle(4, {1, 2, 3}, {2, 3, 4}, 2, 3)
       ELSE Castle(2, {61, 62}, {60, 61, 62}, 62, 2)
              \cup Castle(1, {57, 58, 59}, {58, 59, 60}, 58, 3)

\* The moves of the piece on `from` the rules allow, king safety aside.
RefPieceMoves(b, from) ==
    IF from \in b.pawns THEN RefPawnMoves(b, from, RefForward(b.turn))
    ELSE {Move(from, to, IF to \in opponent_pieces(b) THEN 4 ELSE 0) :
            to \in RefAttacksFrom(b, from) \ own_pieces(b)}
           \cup (IF from \in b.kings THEN RefCastles(b, from) ELSE {})

\* The legal moves: the rule-conforming moves of the side to move after
\* which its king is not attacked.
RefLegalMoves(b) ==
    {m \in UNION {RefPieceMoves(b, from) : from \in own_pieces(b)} :
        ~RefInCheck(make_move(b, m), b.turn)}

\* A legal position: one king per side, and the side not to move is not in
\* check.
RefLegalPosition(b) ==
    /\ b.turn \in {"White", "Black"}
    /\ Cardinality(b.kings \cap b.white_pieces) = 1
    /\ Cardinality(b.kings \cap b.black_pieces) = 1
    /\ ~RefInCheck(b, RefOther(b.turn))

\* C1: in every legal position generate_moves returns exactly the legal
\* moves of the side to move, each once: every returned move leaves the
\* mover's king unattacked and every rule-conforming move that does so is
\* returned.
C1_ExactlyLegalMoves ==
    RefLegalPosition(board) =>
        /\ SeqToSet(generate_moves(board).moves) = RefLegalMoves(board)
        /\ Len(generate_moves(board).moves)
             = Cardinality(SeqToSet(generate_moves(board).moves))

(***************************************************************************)
(* En-passant captures that would uncover the king on its rank.            *)
(***************************************************************************)
\* 8/8/8/q2pP2K/8/8/8/4k3 w - d6 0 1  (the queen is west of the king, the capture goes to the west)
FenEpPinWest ==
    [pieces |-> <<"8", "/", "8", "/", "8", "/", "q", "2", "p", "P", "2", "K", "/", "8", "/", "8", "/", "8", "/", "4", "k", "3">>,
     turn |-> "w", castling |-> <<"-">>, en_passant |-> <<"d", "6">>,
     halfmove_clock |-> 0, fullmove_clock |-> 1]

\* 4K3/8/8/8/k1pP3R/8/8/8 b - d3 0 1  (Black to move, the king on its fourth rank)
FenEpPinBlack ==
    [pieces |-> <<"4", "K", "3", "/", "8", "/", "8", "/", "8", "/", "k", "1", "p", "P", "3", "R", "/", "8", "/", "8", "/", "8">>,
     turn |-> "b", castling |-> <<"-">>, en_passant |-> <<"d", "3">>,
     halfmove_clock |-> 0, fullmove_clock |-> 1]

\* 8/8/8/K1PpB2r/8/8/8/4k3 w - d6 0 1  (a bishop still covers the king after the capture)
FenEpBlocked ==
    [pieces |-> <<"8", "/", "8", "/", "8", "/", "K", "1", "P", "p", "B", "2", "r", "/", "8", "/", "8", "/", "8", "/", "4", "k", "3">>,
     turn |-> "w", castling |-> <<"-">>, en_passant |-> <<"d", "6">>,
     halfmove_clock |-> 0, fullmove_clock |-> 1]

\* 8/8/8/KPpP3r/8/8/8/4k3 w - c6 0 1  (two capturing pawns, each leaves the other on the rank)
FenEpTwoPawns ==
    [pieces |-> <<"8", "/", "8", "/", "8", "/", "K", "P", "p", "P", "3", "r", "/", "8", "/", "8", "/", "8", "/", "4", "k", "3">>,
     turn |-> "w", castling |-> <<"-">>, en_passant |-> <<"c", "6">>,
     halfmove_clock |-> 0, fullmove_clock |-> 1]

\* 8/8/8/8/k3p2R/8/3P4/4K3 w - - 0 1  (d2d4 gives Black a capture that would uncover the king)
FenEpAfterPush ==
    [pieces |-> <<"8", "/", "8", "/", "8", "/", "8", "/", "k", "3", "p", "2", "R", "/", "8", "/", "3", "P", "4", "/", "4", "K", "3">>,
     turn |-> "w", castling |-> <<"-">>, en_passant |-> <<"-">>,
     halfmove_clock |-> 0, fullmove_clock |-> 1]

EpFens == {FenEpPin, FenEpPinWest, FenEpPinBlack, FenEpBlocked, FenEpTwoPawns,
           FenEpAfterPush, FenBlackEp}

\* perft from each of the en-passant roots.
InitEp ==
    /\ board \in {load_position(BoardDefault, <<fen>>, <<>>) : fen \in EpFens}
    /\ root = board
    /\ played = <<>>
    /\ saved = <<>>
    /\ last = "load"
    /\ command = [fen |-> <<>>, moves |-> <<>>]
    /\ ScoreIdle
    /\ SearchIdle

NextEp == MakeMove \/ UnmakeMove

SpecEp == InitEp /\ [][NextEp]_vars

\* The square of the pawn an en-passant capture removes: the file of the
\* target on the rank of the capturing pawn.
EpCaptured(m) == (MoveTo(m) % 8) + 8 * (MoveFrom(m) \div 8)

\* With the capturing and the captured pawn taken off the board, the mover's
\* king stands on their rank with nothing between it and a rook or queen of
\* the opponent on that rank.
EpExposesKingOnRank(b, m) ==
    LET occupied == (b.white_pieces \cup b.black_pieces)
                       \ {MoveFrom(m), EpCaptured(m)}
        rank == MoveFrom(m) \div 8
    IN \E k \in b.kings \cap own_pieces(b),
          r \in opponent_pieces(b) \cap (b.rooks \cup b.queens) :
           /\ k \div 8 = rank
           /\ r \div 8 = rank
           /\ \A s \in Squares :
                 ((k < s /\ s < r) \/ (r < s /\ s < k)) => s \notin occupied

\* C12: no generated en-passant capture takes the capturing and the captured
\* pawn off the king's rank so that a rook or queen of the opponent attacks
\* the mover's king along that rank; in 8/8/8/K1Pp3r/8/8/8/4k3 w - d6 the
\* capture c5d6 is not generated.
C12_NoEpRankExposure ==
    /\ \A m \in SeqToSet(generate_moves(board).moves) :
          is_en_passant(m) => ~EpExposesKingOnRank(board, m)
    /\ board = load_position(BoardDefault, <<FenEpPin>>, <<>>)
          => Move(34, 43, 5) \notin SeqToSet(generate_moves(board).moves)

\* After d2d4 the black pawn e4 stands next to the pushed pawn with the ep
\* square d3 behind it, the capture would uncover the king a4 to the rook
\* h4, and it is not generated.
C12_Witness ==
    /\ last = "make"
    /\ board.ep = 19
    /\ 28 \in board.pawns \cap board.black_pieces
    /\ EpExposesKingOnRank(board, Move(28, 19, 5))
    /\ Move(28, 19, 5) \notin SeqToSet(generate_moves(board).moves)

(***************************************************************************)
(* Castling rights under make_move / unmake_move.                          *)
(***************************************************************************)
\* r3k2r/1P6/8/8/8/8/6p1/R3K2R w KQkq - 0 1  (all four rights, and pawns that capture the rooks a8 and h1 by promotion)
FenCastlePromo ==
    [pieces |-> <<"r", "3", "k", "2", "r", "/", "1", "P", "6", "/", "8", "/", "8", "/", "8", "/", "8", "/", "6", "p", "1", "/", "R", "3", "K", "2", "R">>,
     turn |-> "w", castling |-> <<"K", "Q", "k", "q">>, en_passant |-> <<"-">>,
     halfmove_clock |-> 0, fullmove_clock |-> 1]

CastleFens == {FenCastle, FenCastlePromo}

\* perft from the roots with castling rights.
InitCastle ==
    /\ board \in {load_position(BoardDefault, <<fen>>, <<>>) : fen \in CastleFens}
    /\ root = board
    /\ played = <<>>
    /\ saved = <<>>
    /\ last = "load"
    /\ command = [fen |-> <<>>, moves |-> <<>>]
    /\ ScoreIdle
    /\ SearchIdle

NextCastle == MakeMove \/ UnmakeMove

SpecCastle == InitCastle /\ [][NextCastle]_vars

\* The bit of the right that needs a rook on this corner (0 for any other
\* square), and the two bits of a colour.
CornerRight(square) ==
    CASE square = 7 -> 8 [] square = 0 -> 4 [] square = 63 -> 2
      [] square = 56 -> 1 [] OTHER -> 0

ColorRights(color) == IF color = "White" THEN 12 ELSE 3

\* Every right that is set has its king and its rook at home.
RightsConsistent(b) ==
    /\ BitAnd(b.castling_rights, 12) > 0 => 4 \in b.kings \cap b.white_pieces
    /\ BitAnd(b.castling_rights, 3) > 0 => 60 \in b.kings \cap b.black_pieces
    /\ BitAnd(b.castling_rights, 8) > 0 => 7 \in b.rooks \cap b.white_pieces
    /\ BitAnd(b.castling_rights, 4) > 0 => 0 \in b.rooks \cap b.white_pieces
    /\ BitAnd(b.castling_rights, 2) > 0 => 63 \in b.rooks \cap b.black_pieces
    /\ BitAnd(b.castling_rights, 1) > 0 => 56 \in b.rooks \cap b.black_pieces

\* C17: from a root with consistent rights, before and after every
\* make_move / unmake_move of generated moves each right that is set has
\* its king on e1 / e8 and its rook on its corner; a king move clears both
\* rights of the mover, a rook that leaves a corner or is captured on it
\* clears the right of that corner.
C17_CastlingRights ==
    [][/\ RightsConsistent(board)
       /\ RightsConsistent(board')
       /\ last' = "make" =>
            /\ MoveFrom(played'[Len(played')]) \in board.kings
                  => BitAnd(board'.castling_rights, ColorRights(board.turn)) = 0
            /\ MoveFrom(played'[Len(played')]) \in board.rooks
                  => BitAnd(board'.castling_rights,
                            CornerRight(MoveFrom(played'[Len(played')]))) = 0
            /\ MoveTo(played'[Len(played')]) \in board.rooks
                  => BitAnd(board'.castling_rights,
                            CornerRight(MoveTo(played'[Len(played')]))) = 0]_vars

\* The pawn b7 has captured the rook a8 with all four rights set, and the
\* right of that corner is gone while the other three are kept.
C17_Witness ==
    /\ last = "make"
    /\ root.castling_rights = 15
    /\ played = <<Move(49, 56, 15)>>
    /\ board.castling_rights = 14

(***************************************************************************)
(* Score arithmetic: three operands drawn from every variant, and the      *)
(* operators of search.rs applied to them.                                 *)
(***************************************************************************)
MaxMatePly == 2

MaxCentipawns == 2

Scores ==
    {OwnMate(p) : p \in 0..MaxMatePly} \cup {OppMate(p) : p \in 0..MaxMatePly}
    \cup {Score(s) : s \in -MaxCentipawns..MaxCentipawns}
    \cup {Draw(p) : p \in 0..MaxMatePly} \cup {Stop}

InitScore ==
    /\ BoardIdle
    /\ sa \in Scores
    /\ sb \in Scores
    /\ sc \in Scores
    /\ out = [op |-> "none"]
    /\ SearchIdle

\* sa.partial_cmp(&sb)
Compare ==
    /\ out' = [op |-> "partial_cmp", lhs |-> sa, rhs |-> sb,
               val |-> partial_cmp(sa, sb)]
    /\ UNCHANGED <<sa, sb, sc>>
    /\ UNCHANGED <<boardVars, searchVars>>

\* sa = -sa
Negate ==
    /\ sa' = Neg(sa)
    /\ out' = [op |-> "neg", arg |-> sa, val |-> Neg(sa)]
    /\ UNCHANGED <<sb, sc>>
    /\ UNCHANGED <<boardVars, searchVars>>

NextScore == Compare \/ Negate

SpecScore == InitScore /\ [][NextScore]_vars

\* C7: partial_cmp is a total order on all Score values, Stop included:
\* a value compared with itself is Equal, a < b excludes b < a and accords
\* with b > a, and both < and the equivalence are transitive.
C7_TotalOrder ==
    /\ partial_cmp(sa, sa) = "Equal"
    /\ Lt(sa, sb) => ~Lt(sb, sa)
    /\ Lt(sa, sb) <=> Gt(sb, sa)
    /\ (partial_cmp(sa, sb) = "Equal") <=> (partial_cmp(sb, sa) = "Equal")
    /\ (Lt(sa, sb) /\ Lt(sb, sc)) => Lt(sa, sc)
    /\ (Le(sa, sb) /\ Le(sb, sc)) => Le(sa, sc)

\* C8: every OwnMate ranks above every centipawn score and every Draw, and
\* those above every OppMate; a shorter own mate ranks above a longer one,
\* a longer opponent mate above a shorter one; Draw(p) equals Score(0).
C8_ScoreRanking ==
    /\ (sa.tag = "OwnMate" /\ sb.tag \in {"Score", "Draw", "OppMate"})
          => (Gt(sa, sb) /\ Lt(sb, sa))
    /\ (sa.tag \in {"Score", "Draw"} /\ sb.tag = "OppMate")
          => (Gt(sa, sb) /\ Lt(sb, sa))
    /\ (sa.tag = "OwnMate" /\ sb.tag = "OwnMate")
          => (Gt(sa, sb) <=> sa.n < sb.n)
    /\ (sa.tag = "OppMate" /\ sb.tag = "OppMate")
          => (Gt(sa, sb) <=> sa.n > sb.n)
    /\ sa.tag = "Draw"
          => (partial_cmp(sa, Score(0)) = "Equal"
              /\ partial_cmp(Score(0), sa) = "Equal")
    /\ out.op = "partial_cmp" => out.val = partial_cmp(out.lhs, out.rhs)

\* A state in which a one-ply own mate has been compared with a two-ply own
\* mate and found greater.
C8_Witness ==
    /\ out.op = "partial_cmp"
    /\ out.lhs = OwnMate(1)
    /\ out.rhs = OwnMate(2)
    /\ out.val = "Greater"

\* C9: negating a score twice gives the score back, for every variant;
\* negation swaps OwnMate and OppMate, negates centipawns, and leaves the
\* ply of a mate or a draw unchanged.
C9_NegInvolution ==
    /\ Neg(Neg(sa)) = sa
    /\ sa.tag = "OwnMate" => Neg(sa) = OppMate(sa.n)
    /\ sa.tag = "OppMate" => Neg(sa) = OwnMate(sa.n)
    /\ sa.tag = "Score" => Neg(sa) = Score(-sa.n)
    /\ sa.tag = "Draw" => Neg(sa) = Draw(sa.n)
    /\ out.op = "neg" => Neg(out.val) = out.arg

\* A state in which a draw with a non-zero ply has been negated.
C9_Witness ==
    /\ out.op = "neg"
    /\ out.arg = Draw(1)
    /\ out.val = Draw(1)

\* Ordering::reverse
ReverseOrdering(o) ==
    CASE o = "Less" -> "Greater"
      [] o = "Greater" -> "Less"
      [] o = "Equal" -> "Equal"

\* C29: on scores other than Stop negation reverses the order: a < b gives
\* -b < -a, a equivalent to b gives -a equivalent to -b, and -(a.inc())
\* compares with -(b.inc()) as the reverse of a.inc() with b.inc(); the
\* comparison an execution has made is the one of the negated operands
\* exchanged.
C29_NegReversesOrder ==
    /\ (sa # Stop /\ sb # Stop)
       => /\ Lt(sa, sb) => Lt(Neg(sb), Neg(sa))
          /\ partial_cmp(sa, sb) = "Equal"
             => partial_cmp(Neg(sa), Neg(sb)) = "Equal"
          /\ partial_cmp(Neg(inc(sa)), Neg(inc(sb)))
               = ReverseOrdering(partial_cmp(inc(sa), inc(sb)))
    /\ (out.op = "partial_cmp" /\ out.lhs # Stop /\ out.rhs # Stop)
       => partial_cmp(Neg(out.rhs), Neg(out.lhs)) = out.val

\* A draw has been compared with a positive centipawn score and found
\* less, and the negated score is less than the negated draw.
C29_Witness ==
    /\ out.op = "partial_cmp"
    /\ out.lhs = Draw(1)
    /\ out.rhs = Score(1)
    /\ out.val = "Less"
    /\ Lt(Neg(out.rhs), Neg(out.lhs))

(***************************************************************************)
(* The `position` command of the UCI loop: load_position on the one Board  *)
(* the loop keeps, whatever it held before.                                *)
(***************************************************************************)
UciMove(from, to) == [from |-> from, to |-> to, promotion |-> "None"]

\* The (fen, moves) pairs the command is given: startpos alone, after e2e4
\* and after e2e4 e7e5; three FENs, one of them followed by e1g1.
PositionCommands ==
    {[fen |-> <<>>, moves |-> <<>>],
     [fen |-> <<>>, moves |-> <<UciMove(12, 28)>>],
     [fen |-> <<>>, moves |-> <<UciMove(12, 28), UciMove(52, 36)>>],
     [fen |-> <<FenCastle>>, moves |-> <<>>],
     [fen |-> <<FenCastle>>, moves |-> <<UciMove(4, 6)>>],
     [fen |-> <<FenPush>>, moves |-> <<>>],
     [fen |-> <<FenBlackEp>>, moves |-> <<>>]}

\* Cap on the length of game_stack, which load_position never empties.
MaxGameStack == 3

InitLoad == BoardIdle /\ ScoreIdle /\ SearchIdle

\* UciMessage::Position { fen, moves } => board.load_position(fen, moves)
Position ==
    /\ \E c \in PositionCommands :
          /\ Len(board.game_stack) + Len(c.moves) <= MaxGameStack
          /\ board' = load_position(board, c.fen, c.moves)
          /\ command' = c
    /\ last' = "position"
    /\ UNCHANGED <<played, saved, root>>
    /\ UNCHANGED <<scoreVars, searchVars>>

NextLoad == Position

SpecLoad == InitLoad /\ [][NextLoad]_vars

\* The Board that load_position gives on a Board just constructed.
FreshLoad(c) == load_position(BoardDefault, c.fen, c.moves)

\* C10: the Board after load_position(fen, moves) is a function of
\* (fen, moves) alone, so equal to the one a new Board gets, and with fen
\* absent and no moves it is the starting position: 32 pieces at home, White
\* to move, all four castling rights, no ep square, clocks 0 and 1.
C10_LoadResets ==
    last = "position" =>
        /\ board = FreshLoad(command)
        /\ (command.fen = <<>> /\ command.moves = <<>>) =>
              /\ board.white_pieces = 0..15
              /\ board.black_pieces = 48..63
              /\ board.pawns = (8..15) \cup (48..55)
              /\ board.rooks = {0, 7, 56, 63}
              /\ board.knights = {1, 6, 57, 62}
              /\ board.bishops = {2, 5, 58, 61}
              /\ board.queens = {3, 59}
              /\ board.kings = {4, 60}
              /\ board.turn = "White"
              /\ board.castling_rights = 15
              /\ board.ep = -1
              /\ board.half_move_clock = 0
              /\ board.full_move_clock = 1

\* C11: after load_position(fen, moves), on a new Board or on one that was
\* loaded before, with or without moves, zobrist_hash is the hash computed
\* from scratch from the fields of the resulting Board.
C11_LoadHashFromScratch ==
    last = "position" => board.zobrist_hash = ScratchHash(board)

(***************************************************************************)
(* Search::go on one worker thread, with `stop` arriving at any moment.    *)
(***************************************************************************)
\* k7/8/8/8/4K3/8/8/8 w - - 0 1  (bare kings, White slightly worse)
FenKings ==
    [pieces |-> <<"k", "7", "/", "8", "/", "8", "/", "8", "/", "4", "K", "3", "/", "8", "/", "8", "/", "8">>,
     turn |-> "w", castling |-> <<"-">>, en_passant |-> <<"-">>,
     halfmove_clock |-> 0, fullmove_clock |-> 1]

\* 6k1/5ppp/8/8/8/8/5PPP/R5K1 w - - 0 1  (a1a8 mates)
FenMateInOne ==
    [pieces |-> <<"6", "k", "1", "/", "5", "p", "p", "p", "/", "8", "/", "8", "/", "8", "/", "8", "/", "5", "P", "P", "P", "/", "R", "5", "K", "1">>,
     turn |-> "w", castling |-> <<"-">>, en_passant |-> <<"-">>,
     halfmove_clock |-> 0, fullmove_clock |-> 1]

\* 7k/8/5K2/8/8/8/8/R7 w - - 0 1  (Kf7 Kh7 Rh1 mates)
FenMateInTwo ==
    [pieces |-> <<"7", "k", "/", "8", "/", "5", "K", "2", "/", "8", "/", "8", "/", "8", "/", "8", "/", "R", "7">>,
     turn |-> "w", castling |-> <<"-">>, en_passant |-> <<"-">>,
     halfmove_clock |-> 0, fullmove_clock |-> 1]

\* The positions searched under `stop`, and those searched to the end.
StopFens == {FenKings}

MateFens == {FenMateInOne, FenMateInTwo}

\* max_depth of a go without depth: u8::MAX, which no u8 depth exceeds.
U8_MAX == 255

\* Largest `go depth <n>` under `stop`, and in a search run to the end.
MaxStopDepth == 2

MaxDepth == 3

\* Root depths followed after the u8 depth counter has wrapped.
MaxWrapped == 2

\* Calls of negamax at the root followed within one depth: the first and
\* the re-searches of the aspiration loop.  Four Cut and four All results
\* take both deltas to their largest value.
MaxSearches == 10

Top == stack[Len(stack)]

\* The state when the worker thread enters Search::go: the Go handler has
\* written Status::Go and cloned the board the position command loaded.
InitSearch(fens, depths) ==
    /\ \E fen \in fens : board = load_position(BoardDefault, <<fen>>, <<>>)
    /\ root = board
    /\ last = "go"
    /\ played = <<>>
    /\ saved = <<>>
    /\ command = [fen |-> <<>>, moves |-> <<>>]
    /\ ScoreIdle
    /\ search = NewSearch
    /\ stopper = "Go"
    /\ stack = <<>>
    /\ \E max_depth \in depths :
          go = [pc |-> "while", depth |-> 1, max_depth |-> max_depth,
                alpha |-> OppMate(0), beta |-> OwnMate(0),
                window |-> <<Score(50), Score(50)>>, searches |-> 0]
    /\ info = <<>>
    /\ stop_depth = 0
    /\ workers = <<>>
    /\ heap = <<>>

\* go: the condition of `while` and, when it holds, the head of the body.
GoWhile ==
    /\ go.pc = "while"
    /\ Len(info) < U8_MAX + MaxWrapped
    /\ IF stopper # "Stopping" /\ go.depth <= go.max_depth
       THEN /\ search' = [search EXCEPT !.depth = go.depth]
            /\ go' = [go EXCEPT !.pc = "call", !.searches = 0,
                                !.window = <<Score(50), Score(50)>>]
       ELSE /\ go' = [go EXCEPT !.pc = "done"]
            /\ UNCHANGED search
    /\ UNCHANGED <<board, stopper, stack, info, stop_depth>>
    /\ UNCHANGED <<played, saved, root, last, command, scoreVars, workers,
                 heap>>

\* go: the head of `loop`, the aspiration window and the call of negamax at
\* the root.
GoCall ==
    /\ go.pc = "call"
    /\ go.searches < MaxSearches
    /\ \E alpha \in {IF go.depth # 1 THEN Sub(search.score, go.window[1])
                     ELSE go.alpha},
          beta \in {IF go.depth # 1 THEN Add(search.score, go.window[2])
                    ELSE go.beta},
          r \in {negamax_enter(search, board, stopper, search.depth,
                               IF go.depth # 1
                               THEN Sub(search.score, go.window[1])
                               ELSE go.alpha,
                               IF go.depth # 1
                               THEN Add(search.score, go.window[2])
                               ELSE go.beta)} :
          /\ go' = [go EXCEPT !.pc = "wait", !.alpha = alpha, !.beta = beta,
                              !.searches = @ + 1]
          /\ search' = r.search
          /\ stack' = <<r.frame>>
          /\ stop_depth' = IF stop_depth = 0 /\ r.frame.ret_kind = "Stopped"
                              /\ r.frame.pc = "ret"
                           THEN search.depth ELSE stop_depth
    /\ UNCHANGED <<board, stopper, info>>
    /\ UNCHANGED <<played, saved, root, last, command, scoreVars, workers,
                 heap>>

\* negamax / quiescence_search: make_move and the recursive call, up to the
\* loop of the callee.
Descend ==
    /\ stack # <<>>
    /\ Top.pc = "loop"
    /\ \E b \in {make_move(board, Top.moves[Top.index + 1])} :
         \E r \in {IF Top.fn = "negamax"
                   THEN negamax_enter(search, b, stopper, Top.depth - 1,
                                      Neg(Top.beta), Neg(Top.alpha))
                   ELSE quiescence_enter(search, b, stopper,
                                         Neg(Top.beta), Neg(Top.alpha))} :
            /\ board' = b
            /\ search' = r.search
            /\ stack' = Append(stack, r.frame)
            /\ stop_depth' = IF stop_depth = 0 /\ r.frame.pc = "ret"
                                /\ r.frame.ret_score = Stop
                             THEN search.depth ELSE stop_depth
    /\ UNCHANGED <<stopper, go, info>>
    /\ UNCHANGED <<played, saved, root, last, command, scoreVars, workers,
                 heap>>

\* negamax at depth 0: `return (self.quiescence_search(alpha, beta), Pv)`.
Quiesce ==
    /\ stack # <<>>
    /\ Top.pc = "leaf"
    /\ \E r \in {quiescence_enter(search, board, stopper, Top.alpha, Top.beta)} :
          /\ search' = r.search
          /\ stack' = [stack EXCEPT ![Len(stack)] = r.frame]
          /\ stop_depth' = IF stop_depth = 0 /\ r.frame.pc = "ret"
                              /\ r.frame.ret_score = Stop
                           THEN search.depth ELSE stop_depth
    /\ UNCHANGED <<board, stopper, go, info>>
    /\ UNCHANGED <<played, saved, root, last, command, scoreVars, workers,
                 heap>>

\* A call returns to the loop of its caller: unmake_move and the rest of
\* the loop body, up to the next call or the caller's own return.
Return ==
    /\ Len(stack) >= 2
    /\ Top.pc = "ret"
    /\ \E f \in {stack[Len(stack) - 1]} :
         \E b \in {unmake_move(board, f.moves[f.index + 1])} :
           \E r \in {IF f.fn = "negamax"
                     THEN negamax_resume(search, b, f, Top.ret_score)
                     ELSE [search |-> search,
                           frame |-> quiescence_resume(f, Top.ret_score)]} :
              /\ board' = b
              /\ search' = r.search
              /\ stack' = Append(SubSeq(stack, 1, Len(stack) - 2), r.frame)
    /\ UNCHANGED <<stopper, go, info, stop_depth>>
    /\ UNCHANGED <<played, saved, root, last, command, scoreVars, workers,
                 heap>>

\* `depth += 1` on a u8: at u8::MAX a build with overflow checks (debug)
\* panics and one without (release) wraps to 0.
depth_add_one(depth) ==
    IF depth < U8_MAX THEN {[pc |-> "while", depth |-> depth + 1]}
    ELSE {[pc |-> "panic", depth |-> depth], [pc |-> "while", depth |-> 0]}

\* go: negamax at the root has returned (score, node_kind).  The second
\* negamax, on search_copy, only feeds eprintln and is left out.  Cut and
\* All widen the window and loop; Pv and Stopped end the depth: the score
\* is kept, the info line printed, depth incremented.
GoResult ==
    /\ go.pc = "wait"
    /\ Len(stack) = 1
    /\ Top.pc = "ret"
    /\ stack' = <<>>
    /\ CASE Top.ret_kind = "Cut" ->
              /\ go' = [go EXCEPT !.pc = "call",
                                  !.window[2] = Mul(@, 4)]
              /\ UNCHANGED <<search, info>>
         [] Top.ret_kind = "All" ->
              /\ go' = [go EXCEPT !.pc = "call",
                                  !.window[1] = Mul(@, 4)]
              /\ UNCHANGED <<search, info>>
         [] Top.ret_kind \in {"Pv", "Stopped"} ->
              /\ search' = [search EXCEPT !.score = Top.ret_score]
              /\ info' = Append(info, [depth |-> search.depth,
                                       score |-> Top.ret_score,
                                       nodes |-> search.nodes,
                                       pv |-> search.pv])
              /\ \E next \in depth_add_one(go.depth) :
                    go' = [go EXCEPT !.pc = next.pc, !.depth = next.depth]
    /\ UNCHANGED <<board, stopper, stop_depth>>
    /\ UNCHANGED <<played, saved, root, last, command, scoreVars, workers,
                 heap>>

\* UciMessage::Stop on the UCI thread, or the expiry of the timer thread.
StopSearch ==
    /\ stopper = "Go"
    /\ go.pc \in {"while", "call", "wait"}
    /\ stopper' = "Stopping"
    /\ UNCHANGED <<board, search, stack, go, info, stop_depth>>
    /\ UNCHANGED <<played, saved, root, last, command, scoreVars, workers,
                 heap>>

NextRun == GoWhile \/ GoCall \/ Descend \/ Quiesce \/ Return \/ GoResult

NextStop == NextRun \/ StopSearch

\* A search that is never stopped.
InitRun == InitSearch(MateFens, 1..MaxDepth)

SpecRun == InitRun /\ [][NextRun]_vars

\* A search that `stop` may interrupt.
InitStop == InitSearch(StopFens, 1..MaxStopDepth)

SpecStop == InitStop /\ [][NextStop]_vars

\* C4: once a node of the root depth d+1 in progress has returned
\* Score::Stop, Search.pv is not written again, and the move go ends with
\* is the pv of the last depth completed before, the one of the info line
\* of depth d.
C4_StopDiscardsPartialDepth ==
    [][/\ stop_depth # 0 => search'.pv = search.pv
       /\ (go'.pc = "done" /\ stop_depth' >= 2)
             => search'.pv = info'[stop_depth' - 1].pv]_vars

(***************************************************************************)
(* Iterative deepening to the end of the depth counter.  On a root with    *)
(* no legal move every depth is a single node, so the largest depths are   *)
(* reached.                                                                *)
(***************************************************************************)
\* 7k/5Q2/6K1/8/8/8/8/8 b - - 0 1  (Black to move has no move and is not in check)
FenStalemate ==
    [pieces |-> <<"7", "k", "/", "5", "Q", "2", "/", "6", "K", "1", "/", "8", "/", "8", "/", "8", "/", "8", "/", "8">>,
     turn |-> "b", castling |-> <<"-">>, en_passant |-> <<"-">>,
     halfmove_clock |-> 0, fullmove_clock |-> 1]

\* R5k1/5ppp/8/8/8/8/5PPP/6K1 b - - 1 1  (Black to move is checkmated)
FenMated ==
    [pieces |-> <<"R", "5", "k", "1", "/", "5", "p", "p", "p", "/", "8", "/", "8", "/", "8", "/", "8", "/", "5", "P", "P", "P", "/", "6", "K", "1">>,
     turn |-> "b", castling |-> <<"-">>, en_passant |-> <<"-">>,
     halfmove_clock |-> 1, fullmove_clock |-> 1]

\* `go depth <n>` for the smallest and the largest n; a go without depth
\* has max_depth = u8::MAX as well.
DeepenDepths == {1, 2, U8_MAX - 1, U8_MAX}

InitDeepen ==
    \/ InitSearch({FenStalemate, FenMated}, DeepenDepths)
    \/ InitSearch({FenKings}, 1..MaxStopDepth)

SpecDeepen == InitDeepen /\ [][NextRun]_vars

\* C13: with max depth N and the flag never Stopping, go accepts the root
\* depths 1, 2, ... in this order, each once (one info line per depth, the
\* i-th for depth i), never more than N of them, does not die on the way,
\* and has accepted exactly N when it returns.
C13_DepthsInOrder ==
    /\ go.pc # "panic"
    /\ \A i \in DOMAIN info : info[i].depth = i
    /\ Len(info) <= go.max_depth
    /\ go.pc = "done" => Len(info) = go.max_depth

(***************************************************************************)
(* The UCI loop and its worker threads (uci.rs).  Every `go` writes        *)
(* Status::Go to the one shared flag and spawns a thread that runs         *)
(* Search::go, prints bestmove and writes Status::Idle; `stop` and the     *)
(* timer thread of a timed `go` write Status::Stopping.  A worker reads    *)
(* the flag in the condition of the `while` of Search::go and at the       *)
(* entry of every node of negamax and quiescence_search.  What the nodes   *)
(* compute is the subject of the search model above; here a call of        *)
(* negamax at the root is the number `todo` of nodes it has still to       *)
(* enter: a node that reads Stopping returns at once, a node that is       *)
(* searched adds its children, of which the call has `fuel` left (a tree   *)
(* of a given depth is finite, and so is the widening of the aspiration    *)
(* window).  stop_pending and searched_after_stop record history:          *)
(* Stopping was written while the worker was in Search::go, and the        *)
(* worker searched a node after that.                                      *)
(***************************************************************************)
\* Workers spawned, nodes below the root of one call of negamax, and
\* searches of one depth with a wider window.
MaxWorkers == 2

MaxNodes == 2

MaxWiden == 1

\* Largest `go depth <n>`; deeper iterations are not told apart.
MaxUciDepth == 1

\* A worker thread is inside Search::go.
InSearchGo(worker) == worker.pc \in {"while", "call", "node", "match"}

NewWorker(max_depth, timer) ==
    [pc |-> "while", depth |-> 1, max_depth |-> max_depth, todo |-> 0,
     fuel |-> 0, kind |-> "Pv", widened |-> 0, timer |-> timer,
     stop_pending |-> FALSE, searched_after_stop |-> FALSE,
     time_control |-> <<>>, move_time |-> 0, board |-> 0, played |-> <<>>]

\* *stopper.write() = Status::Stopping, with the workers it finds running.
WriteStopping(ws) ==
    [w \in DOMAIN ws |->
        IF InSearchGo(ws[w]) THEN [ws[w] EXCEPT !.stop_pending = TRUE]
        ELSE ws[w]]

uciRest == <<boardVars, scoreVars, search, stack, go, info, stop_depth, heap>>

\* UciMessage::Go: write Status::Go, spawn the worker; a go with a clock
\* also spawns the timer thread, asleep for move_time.
UciGo ==
    /\ Len(workers) < MaxWorkers
    /\ stopper' = "Go"
    /\ \E max_depth \in (1..MaxUciDepth) \cup {U8_MAX},
          timer \in {"none", "sleep"} :
          workers' = Append(workers, NewWorker(max_depth, timer))
    /\ UNCHANGED uciRest

\* UciMessage::Stop
UciStop ==
    /\ stopper' = "Stopping"
    /\ workers' = WriteStopping(workers)
    /\ UNCHANGED uciRest

\* Search::go, the condition of `while`; leaving the loop sends on the
\* channel of the timer and returns to the closure of the worker.
WorkerWhile(w) ==
    /\ workers[w].pc = "while"
    /\ workers' = [workers EXCEPT ![w].pc =
                      IF stopper # "Stopping"
                         /\ workers[w].depth <= workers[w].max_depth
                      THEN "call" ELSE "bestmove"]
    /\ UNCHANGED <<stopper, uciRest>>

\* The node a worker enters: it returns at once when it reads Stopping,
\* and is searched otherwise, which adds k nodes to enter.
EnterNode(worker, st, k) ==
    IF st = "Stopping" THEN worker
    ELSE [worker EXCEPT !.todo = @ + k, !.fuel = @ - k,
                        !.searched_after_stop = @ \/ worker.stop_pending]

\* Search::go, negamax at the root: Stopped when the root reads Stopping;
\* otherwise Pv, or with an aspiration window (depth != 1) Cut or All.
WorkerCall(w) ==
    /\ workers[w].pc = "call"
    /\ \E k \in 0..MaxNodes,
          kind \in IF stopper = "Stopping" THEN {"Stopped"}
                   ELSE IF workers[w].depth = 1
                           \/ workers[w].widened = MaxWiden THEN {"Pv"}
                   ELSE {"Pv", "Cut", "All"} :
          \E worker \in {EnterNode([workers[w] EXCEPT !.fuel = MaxNodes],
                                    stopper, k)} :
             workers' = [workers EXCEPT ![w] =
                            [worker EXCEPT !.kind = kind,
                                           !.pc = IF worker.todo = 0
                                                  THEN "match" ELSE "node"]]
    /\ UNCHANGED <<stopper, uciRest>>

\* negamax / quiescence_search below the root: the next node is entered.
WorkerNode(w) ==
    /\ workers[w].pc = "node"
    /\ \E k \in 0..workers[w].fuel :
          \E worker \in {EnterNode([workers[w] EXCEPT !.todo = @ - 1],
                                    stopper, k)} :
             workers' = [workers EXCEPT ![w] =
                            [worker EXCEPT !.pc = IF worker.todo = 0
                                                  THEN "match" ELSE "node"]]
    /\ UNCHANGED <<stopper, uciRest>>

\* Search::go, `match node_kind`: Cut and All search the depth again, Pv
\* and Stopped end it.
WorkerMatch(w) ==
    /\ workers[w].pc = "match"
    /\ workers' = [workers EXCEPT ![w] =
          IF workers[w].kind \in {"Cut", "All"}
          THEN [@ EXCEPT !.pc = "call", !.fuel = 0, !.widened = @ + 1]
          ELSE [@ EXCEPT !.pc = "while", !.fuel = 0, !.widened = 0,
                         !.depth = IF @ <= MaxUciDepth THEN @ + 1 ELSE @]]
    /\ UNCHANGED <<stopper, uciRest>>

\* The closure of the worker: println!(bestmove ...)
WorkerBestMove(w) ==
    /\ workers[w].pc = "bestmove"
    /\ workers' = [workers EXCEPT ![w].pc = "idle"]
    /\ UNCHANGED <<stopper, uciRest>>

\* ... and *stopper.write() = Status::Idle.
WorkerIdle(w) ==
    /\ workers[w].pc = "idle"
    /\ stopper' = "Idle"
    /\ workers' = [workers EXCEPT ![w].pc = "done"]
    /\ UNCHANGED uciRest

\* The timer thread wakes up: receiver.try_recv() fails while Search::go
\* has not sent.
TimerWake(w) ==
    /\ workers[w].timer = "sleep"
    /\ workers' = [workers EXCEPT ![w].timer =
                      IF InSearchGo(workers[w]) THEN "write" ELSE "done"]
    /\ UNCHANGED <<stopper, uciRest>>

\* The timer thread: *stopper.write() = Status::Stopping
TimerWrite(w) ==
    /\ workers[w].timer = "write"
    /\ stopper' = "Stopping"
    /\ workers' = [WriteStopping(workers) EXCEPT ![w].timer = "done"]
    /\ UNCHANGED uciRest

\* One step of the worker thread w.
Worker(w) ==
    /\ w \in DOMAIN workers
    /\ \/ WorkerWhile(w)
       \/ WorkerCall(w)
       \/ WorkerNode(w)
       \/ WorkerMatch(w)
       \/ WorkerBestMove(w)
       \/ WorkerIdle(w)

Timer(w) == w \in DOMAIN workers /\ (TimerWake(w) \/ TimerWrite(w))

NextUci ==
    \/ UciGo
    \/ UciStop
    \/ \E w \in 1..MaxWorkers : Worker(w)
    \/ \E w \in 1..MaxWorkers : Timer(w)

InitUci == BoardIdle /\ ScoreIdle /\ SearchIdle

\* Every spawned thread keeps being scheduled; commands arrive or not.
SpecUci ==
    /\ InitUci
    /\ [][NextUci]_vars
    /\ \A w \in 1..MaxWorkers : WF_vars(Worker(w)) /\ WF_vars(Timer(w))

\* C28: the timer thread of a go writes Stopping only while the search of
\* that go is inside Search::go; it writes nothing once the search has
\* returned.
C28_TimerWritesInSearch ==
    [][\A w \in DOMAIN workers :
          (workers[w].timer = "write" /\ workers'[w].timer = "done")
          => InSearchGo(workers[w])]_vars

\* C5: once Stopping has been written while a worker is in Search::go,
\* that worker searches no node it enters afterwards (each returns at
\* once), and it eventually returns from Search::go and prints bestmove.
C5_StopEffective ==
    /\ [](\A w \in DOMAIN workers : ~workers[w].searched_after_stop)
    /\ \A w \in 1..MaxWorkers :
          (w \in DOMAIN workers /\ workers[w].stop_pending)
             ~> (w \in DOMAIN workers /\ workers[w].pc \in {"idle", "done"})

(***************************************************************************)
(* A go with a time control, alone on the flag: no stop command and no     *)
(* second go.                                                              *)
(***************************************************************************)
\* Milliseconds left on a clock.
ClockMs == {0, 19, 20, 1000}

TimeLeft(white_time, black_time) ==
    [kind |-> "TimeLeft", white_time |-> white_time, black_time |-> black_time]

\* Option<UciTimeControl>: none, `go infinite`, and `go wtime .. btime ..`
\* with both clocks or with one of them.
TimeControls ==
    {<<>>, <<[kind |-> "Infinite", white_time |-> <<>>, black_time |-> <<>>]>>}
      \cup {<<TimeLeft(<<w>>, <<b>>)>> : w \in ClockMs, b \in ClockMs}
      \cup {<<TimeLeft(<<w>>, <<>>)>> : w \in ClockMs}

\* Search::go, the time to sleep before Stopping is written: a twentieth of
\* the clock of the side to move when both clocks are given, 0 otherwise,
\* and with 0 no timer thread is spawned.
move_time(time_control, turn) ==
    IF time_control = <<>> THEN 0
    ELSE Bind(time_control[1], LAMBDA tc :
           IF tc.kind = "TimeLeft" /\ tc.white_time # <<>> /\ tc.black_time # <<>>
           THEN TruncDiv(IF turn = "White" THEN tc.white_time[1]
                         ELSE tc.black_time[1], 20)
           ELSE 0)

\* UciMessage::Go { time_control, search_control } with no search running.
UciGoTimed ==
    /\ workers = <<>>
    /\ stopper' = "Go"
    /\ \E time_control \in TimeControls,
          max_depth \in (1..MaxUciDepth) \cup {U8_MAX} :
          workers' =
            <<[NewWorker(max_depth,
                         IF move_time(time_control, board.turn) # 0
                         THEN "sleep" ELSE "none")
                 EXCEPT !.time_control = time_control,
                        !.move_time = move_time(time_control, board.turn)]>>
    /\ UNCHANGED uciRest

NextTimed ==
    \/ UciGoTimed
    \/ \E w \in 1..MaxWorkers : Worker(w)
    \/ \E w \in 1..MaxWorkers : Timer(w)

\* The position command has loaded a position with White or Black to move.
InitTimed ==
    /\ \E fen \in {FenKings, FenStalemate} :
          board = load_position(BoardDefault, <<fen>>, <<>>)
    /\ root = board
    /\ played = <<>>
    /\ saved = <<>>
    /\ last = "position"
    /\ command = [fen |-> <<>>, moves |-> <<>>]
    /\ ScoreIdle
    /\ SearchIdle

SpecTimed ==
    /\ InitTimed
    /\ [][NextTimed]_vars
    /\ \A w \in 1..MaxWorkers : WF_vars(Worker(w)) /\ WF_vars(Timer(w))

\* The go of worker w was given the clocks of both sides.
ClocksGiven(w) ==
    /\ w \in DOMAIN workers
    /\ workers[w].time_control # <<>>
    /\ workers[w].time_control[1].kind = "TimeLeft"
    /\ workers[w].time_control[1].white_time # <<>>
    /\ workers[w].time_control[1].black_time # <<>>

\* C14: a go given both clocks starts a timer thread whose budget is the
\* clock of the side to move divided by 20, and the search it started
\* eventually leaves Search::go with no stop command.
C14_ClockStopsSearch ==
    /\ [](\A w \in 1..MaxWorkers : ClocksGiven(w) =>
             /\ workers[w].timer # "none"
             /\ workers[w].move_time
                  = (IF board.turn = "White"
                     THEN workers[w].time_control[1].white_time[1]
                     ELSE workers[w].time_control[1].black_time[1]) \div 20)
    /\ \A w \in 1..MaxWorkers :
          ClocksGiven(w)
             ~> (w \in DOMAIN workers
                   /\ workers[w].pc \in {"bestmove", "idle", "done"})

(***************************************************************************)
(* The Board of the worker.  The Go handler runs `board.clone()` and moves  *)
(* the clone into the thread; the UCI loop keeps `board`.  Boards are      *)
(* cells: reference 0 is the Board of the UCI loop, reference i > 0 the    *)
(* i-th clone on `heap`.  The worker's make_move / unmake_move write the   *)
(* cell its Search owns, the position command writes cell 0.               *)
(***************************************************************************)
\* (fen, moves) of the position commands sent while a search runs.
CloneCommands ==
    {[fen |-> <<FenKings>>, moves |-> <<>>],
     [fen |-> <<FenEpPin>>, moves |-> <<>>]}

\* No clone: the worker is given the Board of the UCI loop itself.
share(h, b) == [heap |-> h, ref |-> 0]

\* board.clone(): a new cell holding a copy.
clone(h, b) == [heap |-> Append(h, b), ref |-> Len(h) + 1]

\* The Board a reference names.
BoardAt(ref) == IF ref = 0 THEN board ELSE heap[ref]

\* UciMessage::Position while searches may be running.
PositionCmd ==
    /\ \E c \in CloneCommands :
          /\ Len(board.game_stack) + Len(c.moves) <= MaxGameStack
          /\ board' = load_position(board, c.fen, c.moves)
          /\ command' = c
    /\ last' = "position"
    /\ UNCHANGED <<played, saved, root>>
    /\ UNCHANGED <<scoreVars, searchVars>>

\* UciMessage::Go: the worker is spawned with a clone of the Board.
GoClone ==
    /\ workers = <<>>
    /\ last = "position"
    /\ stopper' = "Go"
    /\ \E c \in {clone(heap, board)} :
          /\ heap' = c.heap
          /\ workers' = <<[NewWorker(U8_MAX, "none") EXCEPT !.board = c.ref]>>
    /\ last' = "go"
    /\ UNCHANGED <<board, played, saved, root, command>>
    /\ UNCHANGED <<scoreVars, search, stack, go, info, stop_depth>>

\* The Board cell `ref` is written.
WriteBoard(ref, b) ==
    IF ref = 0 THEN board' = b /\ heap' = heap
    ELSE heap' = [heap EXCEPT ![ref] = b] /\ board' = board

\* negamax of worker w: self.board.make_move(m) on a generated move.
WorkerMake(w) ==
    /\ w \in DOMAIN workers
    /\ Len(workers[w].played) < MaxPly
    /\ BoardAt(workers[w].board).kings
          \cap own_pieces(BoardAt(workers[w].board)) # {}
    /\ \E m \in SeqToSet(generate_moves(BoardAt(workers[w].board)).moves) :
          /\ WriteBoard(workers[w].board,
                        make_move(BoardAt(workers[w].board), m))
          /\ workers' = [workers EXCEPT ![w].played = Append(@, m)]
    /\ last' = "make"
    /\ UNCHANGED <<played, saved, root, command>>
    /\ UNCHANGED <<scoreVars, search, stopper, stack, go, info, stop_depth>>

\* negamax of worker w: self.board.unmake_move(m)
WorkerUnmake(w) ==
    /\ w \in DOMAIN workers
    /\ workers[w].played # <<>>
    /\ WriteBoard(workers[w].board,
                  unmake_move(BoardAt(workers[w].board),
                              workers[w].played[Len(workers[w].played)]))
    /\ workers' = [workers EXCEPT ![w].played = SubSeq(@, 1, Len(@) - 1)]
    /\ last' = "unmake"
    /\ UNCHANGED <<played, saved, root, command>>
    /\ UNCHANGED <<scoreVars, search, stopper, stack, go, info, stop_depth>>

NextClone ==
    \/ PositionCmd
    \/ GoClone
    \/ \E w \in 1..MaxWorkers : WorkerMake(w)
    \/ \E w \in 1..MaxWorkers : WorkerUnmake(w)

InitClone == BoardIdle /\ ScoreIdle /\ SearchIdle

SpecClone == InitClone /\ [][NextClone]_vars

\* C15: a position command leaves the Board of every worker as it is, and
\* a make_move or unmake_move of a worker leaves the Board of the UCI loop
\* as it is.
C15_PrivateBoard ==
    [][/\ last' = "position" =>
            \A w \in DOMAIN workers :
               BoardAt(workers[w].board)' = BoardAt(workers[w].board)
       /\ last' \in {"make", "unmake"} => board' = board]_vars

\* A position command with another position arrived after the worker had
\* made a king move on its Board.
C15_Witness ==
    /\ last = "position"
    /\ workers # <<>>
    /\ workers[1].played # <<>>
    /\ board.kings # BoardAt(workers[1].board).kings
    /\ board.pawns # BoardAt(workers[1].board).pawns

(***************************************************************************)
(* Forced mates, by exhaustive play with generate_moves and make_move.     *)
(***************************************************************************)
RECURSIVE MatesIn(_, _)
RECURSIVE MatedIn(_, _)
\* The side to move can force mate with at most n moves of its own.
MatesIn(b, n) ==
    /\ n >= 1
    /\ \E m \in SeqToSet(generate_moves(b).moves) : MatedIn(make_move(b, m), n - 1)

\* The side to move is mated now, or after any reply within n more moves
\* of the opponent.
MatedIn(b, n) ==
    \E g \in {generate_moves(b)} :
        IF g.moves = <<>> THEN g.in_check
        ELSE /\ n >= 1
             /\ \A r \in SeqToSet(g.moves) : MatesIn(make_move(b, r), n)

\* The root is mate-in-n and not sooner.
MateInExactly(b, n) == ~MatesIn(b, n - 1) /\ MatesIn(b, n)

(***************************************************************************)
(* The aspiration loop of Search::go.  The roots give the loop a mate      *)
(* score and a centipawn score to start from: in the first White mates in  *)
(* one, in the second Black has one move and is mated after it.            *)
(***************************************************************************)
\* 7k/8/6K1/8/8/8/8/R7 b - - 0 1  (1... Kg8 2. Ra8#)
FenMatedInTwo ==
    [pieces |-> <<"7", "k", "/", "8", "/", "6", "K", "1", "/", "8", "/", "8", "/", "8", "/", "8", "/", "R", "7">>,
     turn |-> "b", castling |-> <<"-">>, en_passant |-> <<"-">>,
     halfmove_clock |-> 0, fullmove_clock |-> 1]

AspireFens == {FenMateInOne, FenMatedInTwo}

InitAspire == InitSearch(AspireFens, {2})

SpecAspire == InitAspire /\ [][NextRun]_vars

\* C19: in the aspiration loop of a root depth above 1, the search that
\* follows an All result is called with a strictly lower alpha than the one
\* before it, and the search that follows a Cut result with a strictly
\* higher beta.
C19_WindowWidens ==
    [][(go.pc = "wait" /\ go'.pc = "call" /\ go.depth # 1)
       => /\ Top.ret_kind = "All"
             => Lt(Sub(search.score, go'.window[1]), go.alpha)
          /\ Top.ret_kind = "Cut"
             => Gt(Add(search.score, go'.window[2]), go.beta)]_vars

(***************************************************************************)
(* The transposition-table entry negamax writes when it returns from its   *)
(* loop.  A Return step whose new top frame has returned is such a write:  *)
(* the frame below Top is the writing call, the move at its index the one  *)
(* just searched, and the entry is at the hash of the board after          *)
(* unmake_move.                                                            *)
(***************************************************************************)
\* negamax returned to a negamax that wrote its entry and returned too.
WroteEntry ==
    /\ Len(stack) >= 2
    /\ Top.pc = "ret"
    /\ Len(stack') = Len(stack) - 1
    /\ stack[Len(stack) - 1].fn = "negamax"
    /\ stack'[Len(stack')].pc = "ret"

\* The alpha the writing call was called with: the root's from Search::go,
\* any other as -beta of its caller (beta is never assigned).
CalledAlpha ==
    IF Len(stack) = 2 THEN go.alpha ELSE Neg(stack[Len(stack) - 2].beta)

\* C20: an entry negamax writes after searching a move has kind Cut exactly
\* when the move's score reached beta, otherwise All exactly when the best
\* score is below the alpha of the call and Pv if not; its best_move is a
\* generated move of the position, on a cutoff the move that caused it,
\* and never Move::NULL.
C20_TableEntries ==
    [][WroteEntry
       => Bind(stack[Len(stack) - 1], LAMBDA f :
            Bind(search'.tt[board'.zobrist_hash], LAMBDA entry :
              Bind(Ge(Neg(inc(Top.ret_score)), f.beta), LAMBDA cutoff :
                /\ entry.kind = "Cut" <=> cutoff
                /\ ~cutoff
                   => (entry.kind = "All"
                         <=> Lt(stack'[Len(stack')].ret_score, CalledAlpha))
                /\ entry.kind \in {"Cut", "All", "Pv"}
                /\ entry.best_move # NULL
                /\ \E i \in DOMAIN f.moves : f.moves[i] = entry.best_move
                /\ cutoff => entry.best_move = f.moves[f.index + 1])))]_vars

\* C21: a negamax call of depth >= 1 that returns without having read
\* Stopping on entry returns OppMate(0) for a position in check without a
\* move and Draw(0) for one not in check without a move, and a call that
\* returns OppMate(0) or Draw(0) is at a position without a move.
C21_TerminalScores ==
    (stack # <<>> /\ Top.fn = "negamax" /\ Top.pc = "ret" /\ Top.depth >= 1)
    => Bind(generate_moves(board), LAMBDA g :
         /\ (g.moves = <<>> /\ Top.ret_kind # "Stopped")
            => Top.ret_score = IF g.in_check THEN OppMate(0) ELSE Draw(0)
         /\ Top.ret_score \in {OppMate(0), Draw(0)} => g.moves = <<>>)

(***************************************************************************)
(* Move ordering.  The search runs on a root with four captures: e5xd6 en  *)
(* passant, e5xf6, c4xd5 and Qd1xd5.  A frame at the head of its loop,     *)
(* before its first move, holds the list sort_by has just ordered, and     *)
(* `board` is the position the list was generated from.                    *)
(***************************************************************************)
\* 6k1/8/5p2/3pP3/2P5/8/8/3Q2K1 w - d6 0 1
FenOrder ==
    [pieces |-> <<"6", "k", "1", "/", "8", "/", "5", "p", "2", "/", "3", "p", "P", "3", "/", "2", "P", "5", "/", "8", "/", "8", "/", "3", "Q", "2", "K", "1">>,
     turn |-> "w", castling |-> <<"-">>, en_passant |-> <<"d", "6">>,
     halfmove_clock |-> 0, fullmove_clock |-> 1]

InitOrder == InitSearch({FenOrder}, {2})

SpecOrder == InitOrder /\ [][NextRun]_vars

JustSorted == stack # <<>> /\ Top.pc = "loop" /\ Top.index = 0

\* The list handed to sort_by: negamax sorts the generated moves,
\* quiescence_search the captures among them.
Generated ==
    IF Top.fn = "negamax" THEN generate_moves(board).moves
    ELSE SelectSeq(generate_moves(board).moves, is_capture)

\* The transposition-table move is in the list.
Suggested == Top.tt_best_move # <<>> /\ Top.tt_best_move[1] \in SeqToSet(Generated)

\* The piece a capture takes off the board: what make_move records as
\* `capture`.
Victim(b, m) == Bind(make_move(b, m).game_stack, LAMBDA gs : gs[Len(gs)].capture)

Attacker(b, m) == get_piece(b, MoveFrom(m))

\* C22: the ordered list is a permutation of the generated list; the
\* transposition-table move, when it is in the list, is first; after it
\* every capture precedes every quiet move, and of two captures the one
\* earlier in the list has the higher victim value or, with equal victims,
\* an attacker value that is not higher.
C22_Ordered ==
    JustSorted
    => /\ Len(Top.moves) = Len(Generated)
       /\ SeqToSet(Top.moves) = SeqToSet(Generated)
       /\ Suggested => Top.moves[1] = Top.tt_best_move[1]
       /\ \A i, j \in DOMAIN Top.moves :
             (i < j /\ (Suggested => i > 1))
             => Bind(Top.moves[i], LAMBDA x : Bind(Top.moves[j], LAMBDA y :
                  /\ is_capture(y) => is_capture(x)
                  /\ (is_capture(x) /\ is_capture(y))
                     => \/ value(Victim(board, x)) > value(Victim(board, y))
                        \/ /\ value(Victim(board, x)) = value(Victim(board, y))
                           /\ value(Attacker(board, x))
                                <= value(Attacker(board, y))))

PosIn(moves, m) == CHOOSE i \in DOMAIN moves : moves[i] = m

\* C23: two moves the comparator ranks Equal are in the ordered list in
\* the order in which they were generated.
C23_Stable ==
    JustSorted
    => Bind(Generated, LAMBDA gen :
         \A i, j \in DOMAIN gen :
            (i < j /\ MoveOrder(board, Top.tt_best_move, gen[i], gen[j]) = "Equal")
            => PosIn(Top.moves, gen[i]) < PosIn(Top.moves, gen[j]))

(***************************************************************************)
(* The depth of the recursion.  negamax makes at most `depth` moves before *)
(* it hands over to quiescence_search, which has no depth and makes        *)
(* captures only.                                                          *)
(***************************************************************************)
\* Moves made on the search's board and not unmade.
Plies == Len(board.game_stack) - Len(root.game_stack)

Occupied(b) == b.white_pieces \cup b.black_pieces

\* Pieces taken off the board since the root.
Captured == Cardinality(Occupied(root)) - Cardinality(Occupied(board))

InSearch == go.pc \in {"while", "call", "wait", "done"}

\* C24 as stated: game_stack is never longer than at the root plus the
\* maximum depth.
C24_StackWithinDepth == InSearch => Plies <= go.max_depth

\* C24, amended: every move beyond the maximum depth is a capture made by
\* quiescence_search, so game_stack is never longer than at the root plus
\* the maximum depth plus the pieces captured since the root, which are at
\* most the pieces of the root without the two kings.
C24_StackWithinDepthAndCaptures ==
    InSearch
    => /\ Plies <= go.max_depth + Captured
       /\ Captured <= Cardinality(Occupied(root)) - 2

\* quiescence_search has made a move beyond the maximum depth.
C24_Witness ==
    /\ InSearch
    /\ stack # <<>>
    /\ Top.fn = "quiescence_search"
    /\ Plies = go.max_depth + 1

(***************************************************************************)
(* annotate_move against the generator.  A move of `position ... moves`    *)
(* arrives as squares and a promotion piece; from_ucimove hands them to    *)
(* annotate_move, and the move it returns is made.                         *)
(***************************************************************************)
\* The move m as (from, to) and promotion kind, annotated on b.
Annotated(b, m) == annotate_move(b, Move(MoveFrom(m), MoveTo(m), 0), promotion(m))

\* make_move on the annotation of a generated move.
MakeAnnotated ==
    /\ last # "new"
    /\ Len(played) < MaxPly
    /\ board.kings \cap own_pieces(board) # {}
    /\ \E m \in SeqToSet(generate_moves(board).moves) :
          /\ board' = make_move(board, Annotated(board, m))
          /\ played' = Append(played, Annotated(board, m))
    /\ saved' = Append(saved, board)
    /\ last' = "make"
    /\ UNCHANGED <<root, command>>
    /\ UNCHANGED <<scoreVars, searchVars>>

NextAnnotate == LoadPosition \/ MakeAnnotated \/ UnmakeMove

SpecAnnotate == Init /\ [][NextAnnotate]_vars

\* C25: on every position, annotate_move of the squares and the promotion
\* kind of a generated move returns that move, flags included.
C25_AnnotateRebuildsFlags ==
    (last # "new" /\ board.kings \cap own_pieces(board) # {})
    => \A m \in SeqToSet(generate_moves(board).moves) : Annotated(board, m) = m

\* The annotation of a generated en-passant capture has been made.
C25_Witness ==
    /\ last = "make"
    /\ is_en_passant(played[Len(played)])
    /\ played[Len(played)]
         \in SeqToSet(generate_moves(saved[Len(saved)]).moves)

(***************************************************************************)
(* The board around a call.  The frames below the top one each have their  *)
(* current move made, so the board a call was entered with is the root     *)
(* with the current moves of the frames below it.  The search is followed  *)
(* on the root with captures, with `stop` arriving at any moment.          *)
(***************************************************************************)
InitFrame == InitSearch({FenOrder}, {2})

SpecFrame == InitFrame /\ [][NextStop]_vars

\* The board with which the call of frame k + 1 was entered.
RECURSIVE EntryBoard(_)
EntryBoard(k) ==
    IF k = 0 THEN root
    ELSE make_move(EntryBoard(k - 1), stack[k].moves[stack[k].index + 1])

\* C26: whenever a call of negamax or quiescence_search has returned, the
\* board equals, field by field, the board the call was entered with, and
\* so does the board of a call that is in its loop between two moves; after
\* the root call it is the root.
C26_BoardRestored ==
    InSearch
    => board = EntryBoard(IF stack = <<>> THEN 0 ELSE Len(stack) - 1)

\* A call below the root has returned by a beta cutoff on a capture.
C26_Witness ==
    /\ Len(stack) >= 2
    /\ Top.pc = "ret"
    /\ Top.ret_kind = "Cut"
    /\ Top.moves # <<>>
    /\ is_capture(Top.moves[Top.index + 1])

\* C27: when Search::go has returned and the root has a move, the pv the
\* worker prints as bestmove is a generated move of the root and not
\* Move::NULL.
C27_BestMoveLegal ==
    (go.pc = "done" /\ generate_moves(root).moves # <<>>)
    => /\ search.pv # NULL
       /\ search.pv \in SeqToSet(generate_moves(root).moves)

(***************************************************************************)
(* The amounts of the unchecked shifts `1 << n` of generate_moves.  A      *)
(* shift by an amount outside 0..63 panics in a build with overflow checks *)
(* and uses n mod 64 in one without, which is what Shl1 computes.          *)
(***************************************************************************)
\* generate_king_moves: `1 << from + dir.to_square()` for every checker
\* that is not a pawn and is on a line with the king.
KingShifts(b) ==
    Bind(KingSquare(b, own_pieces(b)), LAMBDA from :
      {from + DirToSquare(DirFromSquares(c, from)) :
         c \in {c \in get_checkers(b) \ b.pawns :
                  DirFromSquares(c, from) # "None"}})

\* generate_white_pawn_moves / generate_black_pawn_moves: the push and the
\* first capture of every pawn, the double push of a pawn on its own rank.
PawnShifts(b) ==
    IF b.turn = "White"
    THEN UNION {{from + 8, from + 7}
                  \cup (IF from \div 8 = 1 THEN {from + 16} ELSE {}) :
                from \in b.pawns \cap b.white_pieces}
    ELSE UNION {{from - 8, from - 7}
                  \cup (IF from \div 8 = 6 THEN {from - 16} ELSE {}) :
                from \in b.pawns \cap b.black_pieces}

\* C30: on a legal position every unchecked shift of generate_moves has an
\* amount in 0..63, the square beyond the king on the line of a checker
\* included.
C30_ShiftsInRange ==
    (last # "new" /\ RefLegalPosition(board))
    => KingShifts(board) \cup PawnShifts(board) \subseteq 0..63

\* C6: for a root that is mate-in-N, a go of depth >= 2N-1 that is never
\* stopped ends with score OwnMate(k), k <= 2N-1, and with pv a move after
\* which the opponent is mated within N-1 further moves; for the root
\* 6k1/5ppp/8/8/8/8/5PPP/R5K1 w it ends with pv a1a8 and OwnMate(1).
C6_MateDistance ==
    go.pc = "done" =>
        /\ \A n \in 1..((go.max_depth + 1) \div 2) :
              MateInExactly(root, n) =>
                  /\ search.score.tag = "OwnMate"
                  /\ search.score.n <= 2 * n - 1
                  /\ search.pv # NULL
                  /\ search.pv \in SeqToSet(generate_moves(root).moves)
                  /\ MatedIn(make_move(root, search.pv), n - 1)
        /\ root = load_position(BoardDefault, <<FenMateInOne>>, <<>>) =>
              /\ search.pv = Move(0, 56, 0)
              /\ search.score = OwnMate(1)

\* A go of depth 3 on the mate-in-two root has ended with a mate score.
C6_Witness ==
    /\ go.pc = "done"
    /\ go.max_depth = 3
    /\ root = load_position(BoardDefault, <<FenMateInTwo>>, <<>>)
    /\ MateInExactly(root, 2)
    /\ search.score.tag = "OwnMate"
=============================================================================
